---- MODULE Spec2Model ----
(***************************************************************************)
(* Ingestion engine of the telegram analysis service: high water mark,     *)
(* backfill, live handlers, overlap re-scan, and the store and source they *)
(* drive (src/ingest.py, src/store.py, src/tg_client.py).                  *)
(*                                                                         *)
(* The engine is cooperative (asyncio): one action of the model is the     *)
(* code that runs between two awaits of one flow.                          *)
(***************************************************************************)
EXTENDS Integers, Sequences, FiniteSets, TLC

\* ------------------------------------------------------------------ bounds
MaxId == 3          \* message ids of the chat are 1..MaxId
BatchSize == 2      \* config.batch_size, scaled down
MaxCrashes == 1     \* process crashes followed by a restart
MaxErrors == 1      \* errors raised by the source, the store or the analyzer
MaxTicks == 2       \* ticks of the clock after the engine went live
MaxEvents == 2      \* live deliveries (new-message and edit events)
MaxScanEvents == 1  \* live deliveries while the re-scans are observed
MaxStops == 2       \* stop_ingestion calls
MaxFloods == 1      \* rate-limit signals (FloodWaitError) raised by the source
MaxWait == 2        \* the waits a rate-limit signal suggests are 1..MaxWait ticks
MaxCalls == 3       \* direct calls of the store's operations
MaxVer == 2         \* versions of a message: 0 as posted, 1..MaxVer its edits
MaxRescans == 1     \* overlap re-scan runs, and manual re-scans
MaxStatsCalls == 1  \* get_stats calls
OverlapWidth == 1   \* config.overlap_minutes, in clock ticks

\* Optional[datetime] = None
NoDate == 0

Ids == 1..MaxId
TaskIds == 1..MaxEvents

Min(a, b) == IF a <= b THEN a ELSE b
Max(a, b) == IF a >= b THEN a ELSE b

VARIABLES
    \* the source (the chat on the provider's side)
    chat,               \* id -> [kind, ts_utc, ver, edit_date]
    now,                \* the clock (datetime.utcnow())
    flood_wait,         \* per fetching flow: e.seconds of the FloodWaitError its fetch
                        \* sleeps on in the client wrapper, 0 when it does not
    \* the store (durable: survives a crash)
    is_postgres,        \* DatabaseStore.is_postgres
    messages,           \* id -> [stored, ts_utc, text, edit_date]
    analysis,           \* id -> [stored, text, analyzed_at]
    checkpoint,         \* ingest_checkpoint row of the target chat:
                        \* [exists, last_message_id, last_ts_utc]
    other_checkpoint,   \* ingest_checkpoint row of another chat id (setup.py's test chat)
    high_water_mark,    \* [exists, message_id]
    \* the engine (in memory)
    running,            \* IngestionEngine._running
    overlap_task,       \* IngestionEngine._overlap_task: "none", "created", "cancelled",
                        \* "done" (the loop returned by itself)
    handlers,           \* the live handlers are registered with the client
    stats,              \* IngestionEngine.stats
    pc,                 \* where start_ingestion / _perform_backfill stands
    current_hwm,        \* start_ingestion's current_hwm
    current_id,         \* _perform_backfill's current_id
    max_id,             \* _perform_backfill's max_id
    proc,               \* _process_message_batch of each flow: [step, batch, bi, an,
                        \* processed_count]
    tasks,              \* live handler invocations in flight
    rescan,             \* the overlap re-scan run, the manual re-scan and the
                        \* get_stats call in flight
    \* history (observations of the run, read by the properties only)
    hist

vars == <<chat, now, flood_wait, is_postgres, messages, analysis, checkpoint, other_checkpoint,
          high_water_mark,
          running, overlap_task, handlers, stats, pc, current_hwm, current_id,
          max_id, proc, tasks, rescan, hist>>

srcVars == <<chat, now, flood_wait>>
storeVars == <<is_postgres, messages, analysis, checkpoint, other_checkpoint,
               high_water_mark>>
backfillVars == <<pc, current_hwm, current_id, max_id>>
liveVars == <<tasks, rescan>>
engineVars == <<running, overlap_task, handlers, stats>>

\* ------------------------------------------------------------------ records
NoMessage == [stored |-> FALSE, ts_utc |-> NoDate, text |-> 0, edit_date |-> NoDate]
NoAnalysis == [stored |-> FALSE, text |-> 0, analyzed_at |-> NoDate]
NoCheckpoint == [exists |-> FALSE, last_message_id |-> 0, last_ts_utc |-> NoDate]
NoHwm == [exists |-> FALSE, message_id |-> 0]
NoChatMessage == [kind |-> "none", ts_utc |-> NoDate, ver |-> 0, edit_date |-> NoDate]

\* TelegramMessage, before any was received
NoTelegramMessage == [message_id |-> 0, ts_utc |-> NoDate, text |-> 0, edit_date |-> NoDate]
\* a handler invocation slot, and the state of a re-scan flow
NoTask == [kind |-> "idle", pc |-> "idle", msg |-> NoTelegramMessage, an |-> NoAnalysis]
NoRescan == [pc |-> "none", lo |-> NoDate, hi |-> NoDate, edited |-> <<>>,
             msg |-> NoTelegramMessage, an |-> NoAnalysis]

\* IngestionStats(): last_updated defaults to the time of construction
NewStats == [ingested_messages_total |-> 0, analyzed_messages_total |-> 0,
             overlap_rescans_total |-> 0, flood_wait_seconds_total |-> 0,
             ingest_lag_seconds |-> 0, last_updated |-> now]

\* IngestCheckpoint(chat_id, last_message_id, last_ts_utc, updated_at)
IngestCheckpoint(m) ==
    [exists |-> TRUE, last_message_id |-> m.message_id, last_ts_utc |-> m.ts_utc]

\* ------------------------------------------------------------------ source
\* TelegramClientWrapper._convert_message, of the provider's message `row` with id `id`
convert_row(id, row) ==
    [message_id |-> id, ts_utc |-> row.ts_utc, text |-> row.ver,
     edit_date |-> row.edit_date]

convert_message(id) == convert_row(id, chat[id])

\* client.iter_messages(min_id, max_id, limit, reverse=True): the ids of the chat's
\* messages in (lo, hi], ascending, at most `limit` of them
RECURSIVE iter_messages(_, _, _)
iter_messages(lo, hi, limit) ==
    IF lo >= hi \/ limit = 0 THEN <<>>
    ELSE IF chat[lo + 1].kind = "none" THEN iter_messages(lo + 1, hi, limit)
    ELSE <<lo + 1>> \o iter_messages(lo + 1, hi, limit - 1)

\* the `isinstance(message, Message) and message.message` filter and the conversion
RECURSIVE text_messages(_)
text_messages(ids) ==
    IF ids = <<>> THEN <<>>
    ELSE (IF chat[Head(ids)].kind = "text" THEN <<convert_message(Head(ids))>> ELSE <<>>)
         \o text_messages(Tail(ids))

\* TelegramClientWrapper.fetch_messages_batch (min_id exclusive, max_id inclusive)
fetch_messages_batch(min_id, maxid, limit) ==
    text_messages(iter_messages(min_id, maxid, limit))

\* TelegramClientWrapper.fetch_messages_in_range: the text messages of the chat dated
\* in [start_date, end_date], in the order of their ids
RECURSIVE fetch_messages_in_range_from(_, _, _)
fetch_messages_in_range_from(id, start_date, end_date) ==
    IF id > MaxId THEN <<>>
    ELSE (IF /\ chat[id].kind = "text"
             /\ ~(chat[id].ts_utc < start_date)
             /\ chat[id].ts_utc <= end_date
          THEN <<convert_message(id)>> ELSE <<>>)
         \o fetch_messages_in_range_from(id + 1, start_date, end_date)

fetch_messages_in_range(start_date, end_date) ==
    fetch_messages_in_range_from(1, start_date, end_date)

\* the newest message of the chat, 0 when the chat is empty
LatestId == IF \E id \in Ids : chat[id].kind # "none"
            THEN CHOOSE id \in Ids : chat[id].kind # "none"
                                     /\ \A j \in Ids : chat[j].kind # "none" => j <= id
            ELSE 0

\* TelegramClientWrapper.get_current_high_water_mark
get_current_high_water_mark == [exists |-> TRUE, message_id |-> LatestId]

\* ------------------------------------------------------------------ store
\* DatabaseStore.upsert_message: the new row of (chat_id, message_id)
upsert_message_postgres(old, m) ==
    IF ~old.stored
    THEN [stored |-> TRUE, ts_utc |-> m.ts_utc, text |-> m.text, edit_date |-> m.edit_date]
    ELSE IF old.edit_date = NoDate \/ (m.edit_date # NoDate /\ old.edit_date < m.edit_date)
         THEN [old EXCEPT !.text = m.text, !.edit_date = m.edit_date]
         ELSE old

upsert_message_sqlite(old, m) ==
    [stored |-> TRUE, ts_utc |-> m.ts_utc, text |-> m.text, edit_date |-> m.edit_date]

upsert_message(m) ==
    [messages EXCEPT ![m.message_id] =
        IF is_postgres THEN upsert_message_postgres(@, m) ELSE upsert_message_sqlite(@, m)]

\* analyzer.analyze_message: the analysis of the text it was given, stamped now
analyze_message(m) == [stored |-> TRUE, text |-> m.text, analyzed_at |-> now]

\* mutant of upsert_analysis: on a conflict analyzed_at is stamped by the store
upsert_analysis_stamps(id, a) ==
    [analysis EXCEPT ![id] = IF @.stored THEN [a EXCEPT !.analyzed_at = now] ELSE a]

\* DatabaseStore.upsert_analysis (both backends replace the row)
upsert_analysis(id, a) == [analysis EXCEPT ![id] = a]

\* DatabaseStore.update_checkpoint: the row of the chat after the call
update_checkpoint(old, c) ==
    IF is_postgres
    THEN [exists |-> TRUE, last_message_id |-> c.last_message_id,
          last_ts_utc |-> c.last_ts_utc]
    ELSE c

\* the chats with a row in ingest_checkpoint: the engine's target chat, and the chat
\* id setup.py writes its test checkpoint for
Chats == {"target", "test"}

\* mutant of get_checkpoint: the row is not selected by chat_id
get_checkpoint_any_chat(chat_id) ==
    IF checkpoint.exists THEN checkpoint ELSE other_checkpoint

\* DatabaseStore.get_checkpoint: SELECT * FROM ingest_checkpoint WHERE chat_id = ...;
\* None when there is no row
get_checkpoint(chat_id) ==
    IF chat_id = "target" THEN checkpoint ELSE other_checkpoint

\* DatabaseStore.get_messages_needing_reanalysis
get_messages_needing_reanalysis ==
    {id \in Ids : /\ messages[id].stored
                  /\ messages[id].edit_date # NoDate
                  /\ (~analysis[id].stored
                      \/ messages[id].edit_date > analysis[id].analyzed_at)}

\* ------------------------------------------------------------------ history
NewHist == [
    init_ckpt |-> NoCheckpoint, \* the checkpoint at the first start
    crashes |-> 0,
    stop_requested |-> FALSE,
    stops |-> 0,                \* stop_ingestion calls
    stops_idle |-> 0,           \* those made while the engine was not running
    events_at_stop |-> 0,       \* live deliveries made before the first stop returned
    stop_at |-> [pc |-> "none", requests |-> 0, ckpt_writes |-> 0, batch |-> <<>>],
                                \* where the backfill stood when the first stop came: its
                                \* pc, the fetches and checkpoint writes it had made, and
                                \* the batch it was processing
    start_error |-> "none",     \* the await of startup that raised
    run_hwm |-> NoHwm,          \* the stored high water mark when this run started
    errors |-> 0,               \* errors raised by the source, the store, the analyzer
    proc_failed |-> {},         \* <<flow, message_id>> of the messages whose processing
                                \* in a batch raised
    fetches |-> <<>>,           \* the backfill fetches of this run, as LogFetch writes them
    requests |-> <<>>,          \* the iter_messages requests of this run's backfill, as
                                \* LogRequest writes them
    floods |-> 0,               \* rate-limit signals raised so far
    flood_waited |-> 0,         \* the sum of the waits slept on them
    flood_by_id |-> {},         \* the ids whose fetch by id was rate-limited
    calls |-> 0,                \* direct calls of the store's operations
    store_call |-> [op |-> "none", key |-> 0, arg |-> NoMessage, before |-> NoMessage,
                    after |-> NoMessage, repeat |-> FALSE],  \* the latest of them
    ckpt_written |-> {},        \* the chats update_checkpoint was called for
    bf_ckpt_writes |-> 0,       \* checkpoint writes of this run's backfill
    bf_analyzed |-> [id \in Ids |-> 0], \* Analyze invocations of backfill, per id
    run_ckpt |-> NoCheckpoint,  \* the checkpoint when this run started
    events |-> 0,               \* live deliveries so far
    ticks |-> 0,
    handled |-> {},             \* <<kind, message_id>> of the handler runs that finished
    last_write |-> [by |-> "none", before |-> NoCheckpoint, arg |-> NoCheckpoint,
                    after |-> NoCheckpoint],    \* the latest update_checkpoint call
    rescans |-> 0,              \* overlap re-scan runs started
    manuals |-> 0,              \* manual re-scans started
    stats_calls |-> 0,          \* get_stats calls
    scan_need |-> [id \in Ids |-> NoDate],  \* the stored edit_date of the messages that
                                \* needed re-analysis when the overlap run started
    scan_done |-> FALSE,        \* that overlap run has completed
    scan_queried |-> FALSE,     \* it has asked the store for the messages needing
                                \* re-analysis
    scan_err |-> FALSE,         \* an error ended it, or a fetch by id returned None
    manual_ids |-> {},          \* the ids the latest manual re-scan fetched
    manual_done |-> FALSE       \* it has returned
]


\* ------------------------------------------------------------------ engine
Flows == {"backfill", "overlap", "manual"}

\* no fetch of any flow sleeps on a rate limit
NoFlood == [f \in Flows |-> 0]

IdleProc == [step |-> "idle", batch |-> <<>>, bi |-> 0, an |-> NoAnalysis,
             processed_count |-> 0]

\* mutant of batch_max: the upper bound of a batch is cut at the newest id of the
\* chat at the time of the request, not at the high water mark of the run
batch_max_at_latest(cur, hwm_id, size) == Min(cur + size - 1, LatestId)

\* mutant of batch_max: one id too many
batch_max_off_by_one(cur, hwm_id, size) == Min(cur + size, hwm_id)

\* _perform_backfill: max_id = min(current_id + self.batch_size - 1, hwm.message_id)
batch_max(cur, hwm_id, size) == Min(cur + size - 1, hwm_id)

\* the ranges (min_id, max_id] the backfill loop requests from current_id = cur when
\* the chat holds every id, so that each batch ends at its max_id
RECURSIVE full_chat_ranges(_, _, _)
full_chat_ranges(cur, hwm_id, size) ==
    IF cur > hwm_id THEN <<>>
    ELSE LET mx == batch_max(cur, hwm_id, size)
         IN  <<<<cur - 1, mx>>>> \o full_chat_ranges(mx + 1, hwm_id, size)

\* mutant of last_message: the first message of the batch instead of the largest
last_message_first(ms) == ms[1]

\* _perform_backfill: max(messages, key=lambda m: m.message_id)
RECURSIVE last_message(_)
last_message(ms) ==
    IF Len(ms) = 1 THEN ms[1]
    ELSE LET r == last_message(Tail(ms))
         IN  IF ms[1].message_id >= r.message_id THEN ms[1] ELSE r

\* mutant of next_current_id: the loop resumes at the last message seen
next_current_id_at_last(ms) == last_message(ms).message_id

\* _perform_backfill: current_id after a batch whose checkpoint was written
next_current_id(ms) == last_message(ms).message_id + 1

\* mutant of start_message_id: resumes at the checkpointed id itself
start_message_id_at_checkpoint ==
    IF checkpoint.exists THEN checkpoint.last_message_id ELSE 1

\* _perform_backfill: start_message_id
start_message_id == IF checkpoint.exists THEN checkpoint.last_message_id + 1 ELSE 1

\* the `while current_id <= high_water_mark.message_id and self._running` test, taken
\* with current_id = cur; the code between the test and the fetch's await has no await
LoopHead(cur) ==
    /\ current_id' = cur
    /\ IF cur <= current_hwm.message_id /\ running
       THEN /\ pc' = "fetch"
            /\ max_id' = batch_max(cur, current_hwm.message_id, BatchSize)
       ELSE /\ pc' = "register"
            /\ max_id' = max_id

\* start_ingestion up to its first await
StartIngestion ==
    /\ pc = "init"
    /\ running' = TRUE
    /\ pc' = "resolve_hwm"
    /\ hist' = [hist EXCEPT !.fetches = <<>>, !.requests = <<>>, !.bf_ckpt_writes = 0,
                            !.run_ckpt = checkpoint, !.run_hwm = high_water_mark]
    /\ UNCHANGED <<srcVars, storeVars, overlap_task, handlers, stats, current_hwm,
                   current_id, max_id, proc, liveVars>>

\* await self.tg_client.get_current_high_water_mark() returns
ResolveHwm ==
    /\ pc = "resolve_hwm"
    /\ current_hwm' = get_current_high_water_mark
    /\ pc' = "persist_hwm"
    /\ UNCHANGED <<srcVars, storeVars, engineVars, current_id, max_id, proc,
                   liveVars, hist>>

\* mutant of PersistHwm: the backfill starts without the store write
PersistHwmSkipped ==
    /\ pc = "persist_hwm"
    /\ pc' = "get_checkpoint"
    /\ UNCHANGED <<srcVars, storeVars, engineVars, current_hwm, current_id, max_id,
                   proc, liveVars, hist>>

\* await self.store.set_high_water_mark(current_hwm) returns
PersistHwm ==
    /\ pc = "persist_hwm"
    /\ high_water_mark' = current_hwm
    /\ pc' = "get_checkpoint"
    /\ UNCHANGED <<srcVars, is_postgres, other_checkpoint, messages, analysis, checkpoint, engineVars,
                   current_hwm, current_id, max_id, proc, liveVars, hist>>

\* mutant of StartupError: the error is logged and startup goes on, from the
\* empty-chat high water mark when none was resolved
StartupErrorSwallowed ==
    /\ pc \in {"resolve_hwm", "persist_hwm", "get_checkpoint"}
    /\ hist.errors < MaxErrors
    /\ pc' = IF pc = "resolve_hwm" THEN "persist_hwm"
             ELSE IF pc = "persist_hwm" THEN "get_checkpoint" ELSE "register"
    /\ current_hwm' = IF pc = "resolve_hwm" THEN [exists |-> TRUE, message_id |-> 0]
                      ELSE current_hwm
    /\ hist' = [hist EXCEPT !.errors = @ + 1, !.start_error = pc]
    /\ UNCHANGED <<srcVars, storeVars, engineVars, current_id, max_id, proc, liveVars>>

\* an await of start_ingestion outside the backfill loop's try raises
\* (get_current_high_water_mark, set_high_water_mark, or get_checkpoint at the top of
\* _perform_backfill): `except Exception: raise`, after `finally: self._running =
\* False` (no re-scan task exists yet to cancel); start_ingestion ends with the error
StartupError ==
    /\ pc \in {"resolve_hwm", "persist_hwm", "get_checkpoint"}
    /\ hist.errors < MaxErrors
    /\ running' = FALSE
    /\ pc' = "failed"
    /\ hist' = [hist EXCEPT !.errors = @ + 1, !.start_error = pc]
    /\ UNCHANGED <<srcVars, storeVars, overlap_task, handlers, stats, current_hwm,
                   current_id, max_id, proc, liveVars>>

\* _perform_backfill: get_checkpoint returns; the early return or the first loop test
BackfillBegin ==
    /\ pc = "get_checkpoint"
    /\ IF start_message_id > current_hwm.message_id
       THEN /\ pc' = "register"
            /\ UNCHANGED <<current_id, max_id>>
       ELSE LoopHead(start_message_id)
    /\ UNCHANGED <<srcVars, storeVars, engineVars, current_hwm, proc, liveVars, hist>>

LogFetch(out, last) ==
    Append(hist.fetches, [cur |-> current_id, min_id |-> current_id - 1,
                          max_id |-> max_id, limit |-> BatchSize,
                          out |-> out, last |-> last])

\* one request of fetch_messages_batch to the source: its arguments, when it was
\* issued, and how it ended ("ok", "error", or "flood" with the suggested wait)
LogRequest(result, wait) ==
    Append(hist.requests, [min_id |-> current_id - 1, max_id |-> max_id,
                           limit |-> BatchSize, at |-> now,
                           result |-> result, wait |-> wait])

\* _process_message_batch(messages) is entered by flow f
StartBatch(f, ms) ==
    [proc EXCEPT ![f] = [step |-> IF ms = <<>> THEN "done" ELSE "upsert_message",
                         batch |-> ms, bi |-> 1, an |-> NoAnalysis,
                         processed_count |-> 0]]

\* mutant of FetchBatch: an empty batch is handled like a failed fetch
FetchBatchEmptyIsError ==
    /\ pc = "fetch"
    /\ flood_wait["backfill"] = 0
    /\ LET ms == fetch_messages_batch(current_id - 1, max_id, BatchSize)
       IN  IF ms = <<>>
           THEN /\ current_id' = max_id + 1
                /\ pc' = "sleep"
                /\ hist' = [hist EXCEPT !.fetches = LogFetch("empty", 0),
                                        !.requests = LogRequest("ok", 0)]
                /\ UNCHANGED <<proc, max_id>>
           ELSE /\ proc' = StartBatch("backfill", ms)
                /\ pc' = "process"
                /\ hist' = [hist EXCEPT
                       !.fetches = LogFetch("batch", last_message(ms).message_id),
                       !.requests = LogRequest("ok", 0)]
                /\ UNCHANGED <<current_id, max_id>>
    /\ UNCHANGED <<srcVars, storeVars, engineVars, current_hwm, liveVars>>

\* fetch_messages_batch returns its messages
FetchBatch ==
    /\ pc = "fetch"
    /\ flood_wait["backfill"] = 0
    /\ LET ms == fetch_messages_batch(current_id - 1, max_id, BatchSize)
       IN  IF ms = <<>>
           THEN /\ LoopHead(max_id + 1)
                /\ hist' = [hist EXCEPT !.fetches = LogFetch("empty", 0),
                                        !.requests = LogRequest("ok", 0)]
                /\ UNCHANGED proc
           ELSE /\ proc' = StartBatch("backfill", ms)
                /\ pc' = "process"
                /\ hist' = [hist EXCEPT
                       !.fetches = LogFetch("batch", last_message(ms).message_id),
                       !.requests = LogRequest("ok", 0)]
                /\ UNCHANGED <<current_id, max_id>>
    /\ UNCHANGED <<srcVars, storeVars, engineVars, current_hwm, liveVars>>

\* mutant of FetchErrorWithin: the error leaves the loop and start_ingestion
FetchErrorPropagates(n) ==
    /\ pc = "fetch"
    /\ flood_wait["backfill"] = 0
    /\ hist.errors < n
    /\ running' = FALSE
    /\ pc' = "failed"
    /\ hist' = [hist EXCEPT !.fetches = LogFetch("error", 0),
                            !.requests = LogRequest("error", 0), !.errors = @ + 1]
    /\ UNCHANGED <<srcVars, storeVars, overlap_task, handlers, stats, current_hwm,
                   current_id, max_id, proc, liveVars>>

\* fetch_messages_batch raises (not a rate limit): `except Exception` of the loop;
\* the source fails at most n times
FetchErrorWithin(n) ==
    /\ pc = "fetch"
    /\ flood_wait["backfill"] = 0
    /\ hist.errors < n
    /\ current_id' = max_id + 1
    /\ pc' = "sleep"
    /\ hist' = [hist EXCEPT !.fetches = LogFetch("error", 0),
                            !.requests = LogRequest("error", 0), !.errors = @ + 1]
    /\ UNCHANGED <<srcVars, storeVars, engineVars, current_hwm, max_id, proc, liveVars>>

FetchError == FetchErrorWithin(MaxErrors)

\* the source answers the request of fetch_messages_batch with FloodWaitError(w):
\* `except FloodWaitError`, and the wrapper sleeps e.seconds
FetchFloodWait(w) ==
    /\ pc = "fetch"
    /\ flood_wait["backfill"] = 0
    /\ hist.floods < MaxFloods
    /\ flood_wait' = [flood_wait EXCEPT !["backfill"] = w]
    /\ hist' = [hist EXCEPT !.requests = LogRequest("flood", w), !.floods = @ + 1]
    /\ UNCHANGED <<chat, now, storeVars, engineVars, backfillVars, proc, liveVars>>

\* mutant of FetchFloodRetry: the rate limit reaches the loop as an error, and the
\* range is skipped
FetchFloodGivesUp ==
    /\ pc = "fetch"
    /\ flood_wait["backfill"] > 0
    /\ now' = now + flood_wait["backfill"]
    /\ flood_wait' = [flood_wait EXCEPT !["backfill"] = 0]
    /\ current_id' = max_id + 1
    /\ pc' = "sleep"
    /\ hist' = [hist EXCEPT !.flood_waited = @ + flood_wait["backfill"],
                            !.fetches = LogFetch("error", 0)]
    /\ UNCHANGED <<chat, storeVars, engineVars, current_hwm, max_id, proc, liveVars>>

\* asyncio.sleep(e.seconds) returns and the wrapper calls
\* self.fetch_messages_batch(min_id, max_id, limit) again: the same request is in
\* flight; no counter of the stats is touched
FetchFloodRetry ==
    /\ pc = "fetch"
    /\ flood_wait["backfill"] > 0
    /\ now' = now + flood_wait["backfill"]
    /\ flood_wait' = [flood_wait EXCEPT !["backfill"] = 0]
    /\ hist' = [hist EXCEPT !.flood_waited = @ + flood_wait["backfill"]]
    /\ UNCHANGED <<chat, storeVars, engineVars, backfillVars, proc, liveVars>>

\* await asyncio.sleep(5) returns, then the loop test
BackfillSleep ==
    /\ pc = "sleep"
    /\ LoopHead(current_id)
    /\ UNCHANGED <<srcVars, storeVars, engineVars, current_hwm, proc, liveVars, hist>>

\* mutant of NextOfBatch: the for loop tests the running flag
NextOfBatchWhileRunning(p) ==
    IF p.bi < Len(p.batch) /\ running
    THEN [p EXCEPT !.bi = @ + 1, !.step = "upsert_message", !.an = NoAnalysis]
    ELSE [p EXCEPT !.step = "done", !.an = NoAnalysis]

\* _process_message_batch: on to the next message of the batch, or out of the loop
NextOfBatch(p) ==
    IF p.bi < Len(p.batch)
    THEN [p EXCEPT !.bi = @ + 1, !.step = "upsert_message", !.an = NoAnalysis]
    ELSE [p EXCEPT !.step = "done", !.an = NoAnalysis]

\* mutant of ProcUpsertMessage: the stored message is not counted
ProcUpsertMessageUncounted(f) ==
    /\ proc[f].step = "upsert_message"
    /\ messages' = upsert_message(proc[f].batch[proc[f].bi])
    /\ proc' = [proc EXCEPT ![f].step = "analyze"]
    /\ UNCHANGED <<srcVars, is_postgres, other_checkpoint, analysis, checkpoint,
                   high_water_mark, engineVars, backfillVars, liveVars, hist>>

\* mutant of ProcUpsertMessage: the checkpoint is written with each message of a
\* backfill batch as soon as the message is stored
ProcUpsertMessageCheckpoints(f) ==
    /\ proc[f].step = "upsert_message"
    /\ messages' = upsert_message(proc[f].batch[proc[f].bi])
    /\ checkpoint' = IF f = "backfill"
                     THEN update_checkpoint(checkpoint,
                                            IngestCheckpoint(proc[f].batch[proc[f].bi]))
                     ELSE checkpoint
    /\ stats' = [stats EXCEPT !.ingested_messages_total = @ + 1]
    /\ proc' = [proc EXCEPT ![f].step = "analyze"]
    /\ UNCHANGED <<srcVars, is_postgres, other_checkpoint, analysis, high_water_mark,
                   running, overlap_task, handlers, backfillVars, liveVars, hist>>

\* await self.store.upsert_message(message) returns
ProcUpsertMessage(f) ==
    /\ proc[f].step = "upsert_message"
    /\ messages' = upsert_message(proc[f].batch[proc[f].bi])
    /\ stats' = [stats EXCEPT !.ingested_messages_total = @ + 1]
    /\ proc' = [proc EXCEPT ![f].step = "analyze"]
    /\ UNCHANGED <<srcVars, is_postgres, other_checkpoint, analysis, checkpoint, high_water_mark,
                   running, overlap_task, handlers, backfillVars, liveVars, hist>>

\* await analyzer.analyze_message(message) returns
ProcAnalyze(f) ==
    /\ proc[f].step = "analyze"
    /\ LET m == proc[f].batch[proc[f].bi]
       IN  /\ proc' = [proc EXCEPT ![f].step = "upsert_analysis",
                                   ![f].an = analyze_message(m)]
           /\ hist' = [hist EXCEPT !.bf_analyzed[m.message_id] =
                                       IF f = "backfill" THEN @ + 1 ELSE @]
    /\ UNCHANGED <<srcVars, storeVars, engineVars, backfillVars, liveVars>>

\* await self.store.upsert_analysis(analysis) returns
ProcUpsertAnalysis(f) ==
    /\ proc[f].step = "upsert_analysis"
    /\ analysis' = upsert_analysis(proc[f].batch[proc[f].bi].message_id, proc[f].an)
    /\ stats' = [stats EXCEPT !.analyzed_messages_total = @ + 1]
    /\ proc' = [proc EXCEPT ![f] = NextOfBatch([@ EXCEPT !.processed_count = @ + 1])]
    /\ UNCHANGED <<srcVars, is_postgres, other_checkpoint, messages, checkpoint, high_water_mark,
                   running, overlap_task, handlers, backfillVars, liveVars, hist>>

\* mutant of ProcError: the failure ends the batch
ProcErrorEndsBatch(f) ==
    /\ hist.errors < MaxErrors
    /\ proc[f].step \in {"upsert_message", "analyze", "upsert_analysis"}
    /\ proc' = [proc EXCEPT ![f].step = "done", ![f].an = NoAnalysis]
    /\ hist' = [hist EXCEPT
           !.errors = @ + 1,
           !.proc_failed = @ \cup {<<f, proc[f].batch[proc[f].bi].message_id>>}]
    /\ UNCHANGED <<srcVars, storeVars, engineVars, backfillVars, liveVars>>

\* one of the three awaits of a message raises: the per-message `except Exception`
ProcError(f) ==
    /\ hist.errors < MaxErrors
    /\ proc[f].step \in {"upsert_message", "analyze", "upsert_analysis"}
    /\ proc' = [proc EXCEPT ![f] = NextOfBatch(@)]
    /\ hist' = [hist EXCEPT
           !.errors = @ + 1,
           !.proc_failed = @ \cup {<<f, proc[f].batch[proc[f].bi].message_id>>},
           !.bf_analyzed[proc[f].batch[proc[f].bi].message_id] =
               IF f = "backfill" /\ proc[f].step = "analyze" THEN @ + 1 ELSE @]
    /\ UNCHANGED <<srcVars, storeVars, engineVars, backfillVars, liveVars>>

\* mutant of BackfillCheckpoint: the checkpoint and current_id follow the requested
\* batch_max
BackfillCheckpointAtBatchMax ==
    /\ pc = "process"
    /\ proc["backfill"].step = "done"
    /\ LET c == [exists |-> TRUE, last_message_id |-> max_id,
                 last_ts_utc |-> last_message(proc["backfill"].batch).ts_utc]
       IN  /\ checkpoint' = update_checkpoint(checkpoint, c)
           /\ LoopHead(max_id + 1)
           /\ hist' = [hist EXCEPT
                  !.bf_ckpt_writes = @ + 1,
                  !.last_write = [by |-> "backfill", before |-> checkpoint,
                                  arg |-> c, after |-> checkpoint']]
    /\ proc' = [proc EXCEPT !["backfill"] = IdleProc]
    /\ UNCHANGED <<srcVars, is_postgres, other_checkpoint, messages, analysis, high_water_mark,
                   engineVars, current_hwm, liveVars>>

\* await self.store.update_checkpoint(checkpoint) returns, then the loop test
BackfillCheckpoint ==
    /\ pc = "process"
    /\ proc["backfill"].step = "done"
    /\ LET ms == proc["backfill"].batch
       IN  /\ checkpoint' = update_checkpoint(checkpoint, IngestCheckpoint(last_message(ms)))
           /\ LoopHead(next_current_id(ms))
    /\ proc' = [proc EXCEPT !["backfill"] = IdleProc]
    /\ hist' = [hist EXCEPT
           !.bf_ckpt_writes = @ + 1,
           !.last_write = [by |-> "backfill", before |-> checkpoint,
                           arg |-> IngestCheckpoint(last_message(proc["backfill"].batch)),
                           after |-> checkpoint']]
    /\ UNCHANGED <<srcVars, is_postgres, other_checkpoint, messages, analysis, high_water_mark,
                   engineVars, current_hwm, liveVars>>

\* update_checkpoint raises: `except Exception` of the loop
BackfillCheckpointError ==
    /\ pc = "process"
    /\ hist.errors < MaxErrors
    /\ proc["backfill"].step = "done"
    /\ current_id' = max_id + 1
    /\ pc' = "sleep"
    /\ proc' = [proc EXCEPT !["backfill"] = IdleProc]
    /\ hist' = [hist EXCEPT !.errors = @ + 1,
                            !.fetches[Len(hist.fetches)].out = "checkpoint_error"]
    /\ UNCHANGED <<srcVars, storeVars, engineVars, current_hwm, max_id, liveVars>>

\* mutant of GoLive: the handlers are registered in a step of their own, the re-scan
\* task is left for a later one
GoLiveHandlersFirst ==
    /\ pc = "register"
    /\ handlers' = TRUE
    /\ UNCHANGED <<srcVars, storeVars, running, overlap_task, stats, backfillVars,
                   proc, liveVars, hist>>

\* start_ingestion steps 3 to 5: the handlers, the re-scan task, start_listening
GoLive ==
    /\ pc = "register"
    /\ handlers' = TRUE
    /\ overlap_task' = IF running THEN "created" ELSE "done"
    /\ pc' = "listening"
    /\ rescan' = [rescan EXCEPT !.overlap.pc = IF running THEN "sleep" ELSE "ended"]
    /\ UNCHANGED <<srcVars, storeVars, running, stats, current_hwm, current_id,
                   max_id, proc, tasks, hist>>

\* mutant of StopIngestion: the flag is flipped instead of cleared
StopIngestionToggles(n) ==
    /\ hist.stops < n
    /\ running' = ~running
    /\ hist' = [hist EXCEPT !.stop_requested = TRUE, !.stops = @ + 1,
                            !.stops_idle = IF running THEN @ ELSE @ + 1]
    /\ UNCHANGED <<srcVars, storeVars, overlap_task, handlers, stats, backfillVars,
                   proc, liveVars>>

\* stop_ingestion (it has no await): _running = False, and cancel() of the re-scan
\* task, which ends a pending task at the await it stands at and does nothing to a
\* task that is cancelled or done; the handlers stay registered with the client.
\* start_ingestion has no await between the exit of the backfill loop and
\* start_listening, so no other code runs while it stands at "register"
StopIngestion(n) ==
    /\ hist.stops < n
    /\ pc # "register"
    /\ running' = FALSE
    /\ IF overlap_task = "created"
       THEN /\ overlap_task' = "cancelled"
            /\ rescan' = [rescan EXCEPT !.overlap = [NoRescan EXCEPT !.pc = "ended"]]
            /\ proc' = [proc EXCEPT !["overlap"] = IdleProc]
            /\ flood_wait' = [flood_wait EXCEPT !["overlap"] = 0]
       ELSE UNCHANGED <<overlap_task, rescan, proc, flood_wait>>
    /\ hist' = [hist EXCEPT !.stop_requested = TRUE, !.stops = @ + 1,
                            !.stops_idle = IF running THEN @ ELSE @ + 1,
                            !.events_at_stop = IF hist.stop_requested THEN @
                                               ELSE hist.events,
                            !.stop_at = IF hist.stop_requested THEN @
                                        ELSE [pc |-> pc, requests |-> Len(hist.requests),
                                              ckpt_writes |-> hist.bf_ckpt_writes,
                                              batch |-> proc["backfill"].batch]]
    /\ UNCHANGED <<chat, now, storeVars, handlers, stats, backfillVars, tasks>>

\* the awaits of start_ingestion at which its task can be cancelled
StartAwaits == {"resolve_hwm", "persist_hwm", "get_checkpoint", "fetch", "process",
                "sleep", "listening"}

\* mutant of StartIngestionExits: start_ingestion has no finally clause
StartIngestionExitsBare(how) ==
    /\ IF how = "cancelled" THEN pc \in StartAwaits ELSE pc = "listening"
    /\ how = "failed" => hist.errors < MaxErrors
    /\ pc' = how
    /\ proc' = [proc EXCEPT !["backfill"] = IdleProc]
    /\ flood_wait' = [flood_wait EXCEPT !["backfill"] = 0]
    /\ hist' = IF how = "failed"
               THEN [hist EXCEPT !.errors = @ + 1, !.start_error = pc] ELSE hist
    /\ UNCHANGED <<chat, now, storeVars, engineVars, current_hwm, current_id, max_id,
                   liveVars>>

\* start_ingestion is left at an await: start_listening returns (the client has
\* disconnected) or raises, or the task of start_ingestion is cancelled, as app.start
\* does with a pending task (CancelledError is not an Exception, so no `except
\* Exception` of the backfill holds it). `finally: self._running = False`, and
\* cancel() of the re-scan task when there is one
StartIngestionExits(how) ==
    /\ IF how = "cancelled" THEN pc \in StartAwaits ELSE pc = "listening"
    /\ how = "failed" => hist.errors < MaxErrors
    /\ pc' = how
    /\ running' = FALSE
    /\ IF overlap_task = "created"
       THEN /\ overlap_task' = "cancelled"
            /\ rescan' = [rescan EXCEPT !.overlap = [NoRescan EXCEPT !.pc = "ended"]]
            /\ proc' = [proc EXCEPT !["overlap"] = IdleProc, !["backfill"] = IdleProc]
            /\ flood_wait' = [flood_wait EXCEPT !["overlap"] = 0, !["backfill"] = 0]
       ELSE /\ UNCHANGED <<overlap_task, rescan>>
            /\ proc' = [proc EXCEPT !["backfill"] = IdleProc]
            /\ flood_wait' = [flood_wait EXCEPT !["backfill"] = 0]
    /\ hist' = IF how = "failed"
               THEN [hist EXCEPT !.errors = @ + 1, !.start_error = pc] ELSE hist
    /\ UNCHANGED <<chat, now, storeVars, handlers, stats, current_hwm, current_id,
                   max_id, tasks>>

\* the process dies during start_ingestion and is started again: the store is all
\* that is kept
CrashRestart ==
    /\ pc \notin {"init", "listening"}
    /\ hist.crashes < MaxCrashes
    /\ running' = FALSE
    /\ overlap_task' = "none"
    /\ handlers' = FALSE
    /\ stats' = NewStats
    /\ pc' = "init"
    /\ current_hwm' = NoHwm
    /\ current_id' = 0
    /\ max_id' = 0
    /\ proc' = [f \in Flows |-> IdleProc]
    /\ flood_wait' = NoFlood
    /\ hist' = [hist EXCEPT !.crashes = @ + 1, !.fetches = <<>>, !.requests = <<>>,
                            !.bf_ckpt_writes = 0]
    /\ UNCHANGED <<chat, now, storeVars, liveVars>>

\* ------------------------------------------------------------------ backfill runs
TextMessage(id) == [kind |-> "text", ts_utc |-> id, ver |-> 0, edit_date |-> NoDate]
MediaMessage(id) == [kind |-> "media", ts_utc |-> id, ver |-> 0, edit_date |-> NoDate]

\* what an earlier run that ended with checkpoint c left in the store
StoredUpTo(c) ==
    [id \in Ids |-> IF id <= c /\ chat[id].kind = "text"
                    THEN [stored |-> TRUE, ts_utc |-> chat[id].ts_utc, text |-> 0,
                          edit_date |-> NoDate]
                    ELSE NoMessage]
AnalyzedUpTo(c) ==
    [id \in Ids |-> IF id <= c /\ chat[id].kind = "text"
                    THEN [stored |-> TRUE, text |-> 0, analyzed_at |-> chat[id].ts_utc]
                    ELSE NoAnalysis]


\* a constructed engine over a chat that holds any text messages (its newest message
\* may be one without text), and a store that an earlier run left at any checkpoint
\* (a message it checkpointed may since be deleted)
InitBackfill ==
    /\ chat \in {[id \in Ids |-> IF id \in T THEN TextMessage(id)
                                 ELSE IF id = m THEN MediaMessage(id)
                                 ELSE NoChatMessage] :
                     T \in SUBSET Ids, m \in 0..MaxId}
    /\ \A id \in Ids : chat[id].kind = "media" => id = LatestId
    /\ now = MaxId + 1
    /\ flood_wait = NoFlood
    /\ is_postgres \in BOOLEAN
    /\ \E c \in 0..MaxId :
          /\ c # 0 => chat[c].kind \in {"text", "none"}
          /\ checkpoint = IF c = 0 THEN NoCheckpoint
                          ELSE [exists |-> TRUE, last_message_id |-> c, last_ts_utc |-> c]
          /\ messages = StoredUpTo(c)
          /\ analysis = AnalyzedUpTo(c)
          /\ hist = [NewHist EXCEPT !.init_ckpt = checkpoint]
    /\ other_checkpoint = NoCheckpoint
    /\ high_water_mark = NoHwm
    /\ running = FALSE
    /\ overlap_task = "none"
    /\ handlers = FALSE
    /\ stats = NewStats
    /\ pc = "init"
    /\ current_hwm = NoHwm
    /\ current_id = 0
    /\ max_id = 0
    /\ proc = [f \in Flows |-> IdleProc]
    /\ tasks = [t \in TaskIds |-> NoTask]
    /\ rescan = [overlap |-> NoRescan, manual |-> NoRescan, get_stats |-> NoRescan]

NextBackfill ==
    \/ StartIngestion
    \/ ResolveHwm
    \/ PersistHwm
    \/ BackfillBegin
    \/ FetchBatch
    \/ FetchError
    \/ BackfillSleep
    \/ ProcUpsertMessage("backfill")
    \/ ProcAnalyze("backfill")
    \/ ProcUpsertAnalysis("backfill")
    \/ ProcError("backfill")
    \/ BackfillCheckpoint
    \/ BackfillCheckpointError
    \/ GoLive
    \/ (running /\ StopIngestion(1))
    \/ CrashRestart

SpecBackfill == InitBackfill /\ [][NextBackfill]_vars

\* ------------------------------------------------------------------ live merge
\* the client dispatches an event to a registered handler: the wrapper of
\* add_message_handler / add_message_edit_handler converts the message and calls it
Dispatch(kind, m) ==
    IF handlers
    THEN [tasks EXCEPT ![hist.events + 1] =
              [kind |-> kind, pc |-> "upsert_message", msg |-> m, an |-> NoAnalysis]]
    ELSE tasks

\* a new text message is posted to the chat; the provider sends events.NewMessage
SourcePost(n) ==
    /\ hist.events < n
    /\ LatestId < MaxId
    /\ LET row == [kind |-> "text", ts_utc |-> now, ver |-> 0, edit_date |-> NoDate]
       IN  /\ chat' = [chat EXCEPT ![LatestId + 1] = row]
           /\ tasks' = Dispatch("new", convert_row(LatestId + 1, row))
    /\ hist' = [hist EXCEPT !.events = @ + 1]
    /\ UNCHANGED <<now, flood_wait, storeVars, engineVars, backfillVars, proc, rescan>>

\* a text message of the chat is edited; the provider sends events.MessageEdited
SourceEdit(id, n) ==
    /\ hist.events < n
    /\ chat[id].kind = "text"
    /\ LET row == [chat[id] EXCEPT !.ver = @ + 1, !.edit_date = now]
       IN  /\ chat' = [chat EXCEPT ![id] = row]
           /\ tasks' = Dispatch("edit", convert_row(id, row))
    /\ hist' = [hist EXCEPT !.events = @ + 1]
    /\ UNCHANGED <<now, flood_wait, storeVars, engineVars, backfillVars, proc, rescan>>

\* the provider sends events.NewMessage for a message of the chat once more
\* (delivery is not exactly-once)
Redeliver(id, n) ==
    /\ hist.events < n
    /\ handlers
    /\ chat[id].kind = "text"
    /\ tasks' = Dispatch("new", convert_message(id))
    /\ hist' = [hist EXCEPT !.events = @ + 1]
    /\ UNCHANGED <<srcVars, storeVars, engineVars, backfillVars, proc, rescan>>

\* time passes
Tick ==
    /\ hist.ticks < MaxTicks
    /\ now' = now + 1
    /\ hist' = [hist EXCEPT !.ticks = @ + 1]
    /\ UNCHANGED <<chat, flood_wait, storeVars, engineVars, backfillVars, proc, liveVars>>

\* a handler invocation returns
Handled(t) == [hist EXCEPT !.handled = @ \cup {<<tasks[t].kind, tasks[t].msg.message_id>>}]

\* both handlers: await self.store.upsert_message(message) returns
HandlerUpsertMessage(t) ==
    /\ tasks[t].pc = "upsert_message"
    /\ messages' = upsert_message(tasks[t].msg)
    /\ tasks' = [tasks EXCEPT ![t].pc = "analyze"]
    /\ UNCHANGED <<srcVars, is_postgres, other_checkpoint, analysis, checkpoint, high_water_mark,
                   engineVars, backfillVars, proc, rescan, hist>>

\* both handlers: await analyzer.analyze_message(message) returns
HandlerAnalyze(t) ==
    /\ tasks[t].pc = "analyze"
    /\ tasks' = [tasks EXCEPT ![t].pc = "upsert_analysis",
                              ![t].an = analyze_message(tasks[t].msg)]
    /\ UNCHANGED <<srcVars, storeVars, engineVars, backfillVars, proc, rescan, hist>>

\* _handle_new_message: await self.store.upsert_analysis(analysis) returns
NewMessageUpsertAnalysis(t) ==
    /\ tasks[t].kind = "new"
    /\ tasks[t].pc = "upsert_analysis"
    /\ analysis' = upsert_analysis(tasks[t].msg.message_id, tasks[t].an)
    /\ tasks' = [tasks EXCEPT ![t].pc = "update_checkpoint"]
    /\ UNCHANGED <<srcVars, is_postgres, other_checkpoint, messages, checkpoint, high_water_mark,
                   engineVars, backfillVars, proc, rescan, hist>>

\* _handle_new_message: await self.store.update_checkpoint(checkpoint) returns, the
\* counters, and the return
NewMessageCheckpoint(t) ==
    /\ tasks[t].kind = "new"
    /\ tasks[t].pc = "update_checkpoint"
    /\ checkpoint' = update_checkpoint(checkpoint, IngestCheckpoint(tasks[t].msg))
    /\ stats' = [stats EXCEPT !.ingested_messages_total = @ + 1,
                              !.analyzed_messages_total = @ + 1]
    /\ tasks' = [tasks EXCEPT ![t] = NoTask]
    /\ hist' = [Handled(t) EXCEPT !.last_write =
                    [by |-> "new", before |-> checkpoint,
                     arg |-> IngestCheckpoint(tasks[t].msg), after |-> checkpoint']]
    /\ UNCHANGED <<srcVars, is_postgres, other_checkpoint, messages, analysis, high_water_mark,
                   running, overlap_task, handlers, backfillVars, proc, rescan>>

\* mutant of MessageEditUpsertAnalysis: the edit handler ends like the new-message
\* handler, with a checkpoint write
MessageEditAdvancesCheckpoint(t) ==
    /\ tasks[t].kind = "edit"
    /\ tasks[t].pc = "upsert_analysis"
    /\ analysis' = upsert_analysis(tasks[t].msg.message_id, tasks[t].an)
    /\ checkpoint' = update_checkpoint(checkpoint, IngestCheckpoint(tasks[t].msg))
    /\ tasks' = [tasks EXCEPT ![t] = NoTask]
    /\ hist' = Handled(t)
    /\ UNCHANGED <<srcVars, is_postgres, other_checkpoint, messages, high_water_mark,
                   engineVars, backfillVars, proc, rescan>>

\* _handle_message_edit: await self.store.upsert_analysis(analysis) returns, and the
\* return
MessageEditUpsertAnalysis(t) ==
    /\ tasks[t].kind = "edit"
    /\ tasks[t].pc = "upsert_analysis"
    /\ analysis' = upsert_analysis(tasks[t].msg.message_id, tasks[t].an)
    /\ tasks' = [tasks EXCEPT ![t] = NoTask]
    /\ hist' = Handled(t)
    /\ UNCHANGED <<srcVars, is_postgres, other_checkpoint, messages, checkpoint, high_water_mark,
                   engineVars, backfillVars, proc, rescan>>

\* mutant of HandlerError: the new-message handler counts and checkpoints its message
\* in a finally clause
HandlerErrorCheckpoints(t) ==
    /\ tasks[t].kind # "idle"
    /\ hist.errors < MaxErrors
    /\ tasks' = [tasks EXCEPT ![t] = NoTask]
    /\ hist' = [hist EXCEPT !.errors = @ + 1]
    /\ checkpoint' = IF tasks[t].kind = "new"
                     THEN update_checkpoint(checkpoint, IngestCheckpoint(tasks[t].msg))
                     ELSE checkpoint
    /\ stats' = IF tasks[t].kind = "new"
                THEN [stats EXCEPT !.ingested_messages_total = @ + 1] ELSE stats
    /\ UNCHANGED <<srcVars, is_postgres, other_checkpoint, messages, analysis,
                   high_water_mark, running, overlap_task, handlers, backfillVars, proc,
                   rescan>>

\* an await of a handler raises: the handler's `except Exception` logs and returns
HandlerError(t) ==
    /\ tasks[t].kind # "idle"
    /\ hist.errors < MaxErrors
    /\ tasks' = [tasks EXCEPT ![t] = NoTask]
    /\ hist' = [hist EXCEPT !.errors = @ + 1]
    /\ UNCHANGED <<srcVars, storeVars, engineVars, backfillVars, proc, rescan>>

\* ------------------------------------------------------------------ re-scan
\* TelegramClientWrapper.get_message_by_id: the message, or None
get_message_by_id(id) ==
    IF chat[id].kind = "text" THEN convert_message(id) ELSE NoTelegramMessage

RECURSIVE AscendingIds(_, _)
AscendingIds(S, from) ==
    IF from > MaxId THEN <<>>
    ELSE (IF from \in S THEN <<from>> ELSE <<>>) \o AscendingIds(S, from + 1)

\* _overlap_rescan_loop: _perform_overlap_rescan has returned; the counter, and the
\* loop is back at its sleep
OverlapRunOverFrom(h, err) ==
    /\ stats' = [stats EXCEPT !.overlap_rescans_total = @ + 1]
    /\ hist' = [h EXCEPT !.scan_done = TRUE, !.scan_err = @ \/ err,
                         !.errors = IF err THEN @ + 1 ELSE @]

OverlapRunOver(err) == OverlapRunOverFrom(hist, err)

\* _overlap_rescan_loop: the sleep returns; the loop ends when the engine is stopped,
\* else _perform_overlap_rescan computes its window and awaits the fetch
OverlapWakeWithin(n) ==
    /\ rescan.overlap.pc = "sleep"
    /\ hist.rescans < n
    /\ IF ~running
       THEN /\ rescan' = [rescan EXCEPT !.overlap.pc = "ended"]
            /\ overlap_task' = "done"
            /\ hist' = hist
       ELSE /\ rescan' = [rescan EXCEPT !.overlap.pc = "fetch",
                                        !.overlap.lo = now - OverlapWidth,
                                        !.overlap.hi = now]
            /\ hist' = [hist EXCEPT
                   !.rescans = @ + 1, !.scan_done = FALSE, !.scan_err = FALSE,
                   !.scan_queried = FALSE,
                   !.scan_need = [id \in Ids |->
                                     IF id \in get_messages_needing_reanalysis
                                     THEN messages[id].edit_date ELSE NoDate]]
            /\ overlap_task' = overlap_task
    /\ UNCHANGED <<srcVars, storeVars, running, handlers, stats, backfillVars, proc,
                   tasks>>

OverlapWake == OverlapWakeWithin(MaxRescans)

\* _perform_overlap_rescan: fetch_messages_in_range returns; `if not messages: return`
OverlapFetch ==
    /\ rescan.overlap.pc = "fetch"
    /\ flood_wait["overlap"] = 0
    /\ LET ms == fetch_messages_in_range(rescan.overlap.lo, rescan.overlap.hi)
       IN  IF ms = <<>>
           THEN /\ rescan' = [rescan EXCEPT !.overlap.pc = "sleep"]
                /\ OverlapRunOver(FALSE)
                /\ UNCHANGED proc
           ELSE /\ rescan' = [rescan EXCEPT !.overlap.pc = "process"]
                /\ proc' = StartBatch("overlap", ms)
                /\ UNCHANGED <<stats, hist>>
    /\ UNCHANGED <<srcVars, storeVars, running, overlap_task, handlers, backfillVars,
                   tasks>>

\* on to the next message needing re-analysis, or out of _perform_overlap_rescan
NextEditedFrom(h, ids, err) ==
    IF ids = <<>>
    THEN /\ rescan' = [rescan EXCEPT !.overlap.pc = "sleep", !.overlap.edited = <<>>,
                                     !.overlap.msg = NoTelegramMessage,
                                     !.overlap.an = NoAnalysis]
         /\ OverlapRunOverFrom(h, err)
    ELSE /\ rescan' = [rescan EXCEPT !.overlap.pc = "get_message",
                                     !.overlap.edited = ids,
                                     !.overlap.msg = NoTelegramMessage,
                                     !.overlap.an = NoAnalysis]
         /\ hist' = [h EXCEPT !.scan_err = @ \/ err]
         /\ stats' = stats

NextEdited(ids, err) == NextEditedFrom(hist, ids, err)

\* _perform_overlap_rescan: the batch is processed and
\* get_messages_needing_reanalysis returns
OverlapQuery ==
    /\ rescan.overlap.pc = "process"
    /\ proc["overlap"].step = "done"
    /\ proc' = [proc EXCEPT !["overlap"] = IdleProc]
    /\ NextEditedFrom([hist EXCEPT !.scan_queried = TRUE],
                      AscendingIds(get_messages_needing_reanalysis, 1), FALSE)
    /\ UNCHANGED <<srcVars, storeVars, running, overlap_task, handlers, backfillVars,
                   tasks>>

\* get_message_by_id returns the message, or None (no such text message, or any error
\* of the fetch, which get_message_by_id swallows)
OverlapGetMessage ==
    /\ rescan.overlap.pc = "get_message"
    /\ \E m \in {get_message_by_id(Head(rescan.overlap.edited)), NoTelegramMessage} :
          IF m = NoTelegramMessage
          THEN NextEdited(Tail(rescan.overlap.edited), TRUE)
          ELSE /\ rescan' = [rescan EXCEPT !.overlap.pc = "analyze", !.overlap.msg = m]
               /\ UNCHANGED <<stats, hist>>
    /\ UNCHANGED <<srcVars, storeVars, running, overlap_task, handlers, backfillVars,
                   proc, tasks>>

\* the source answers the request of get_message_by_id with FloodWaitError: the
\* `except Exception` of get_message_by_id logs it and returns None, without a wait
\* and without a retry
OverlapGetMessageFlood ==
    /\ rescan.overlap.pc = "get_message"
    /\ hist.floods < MaxFloods
    /\ NextEditedFrom([hist EXCEPT !.floods = @ + 1, !.scan_err = TRUE,
                                   !.flood_by_id = @ \cup {Head(rescan.overlap.edited)}],
                      Tail(rescan.overlap.edited), FALSE)
    /\ UNCHANGED <<srcVars, storeVars, running, overlap_task, handlers, backfillVars,
                   proc, tasks>>

\* analyzer.analyze_message returns
OverlapAnalyze ==
    /\ rescan.overlap.pc = "analyze"
    /\ rescan' = [rescan EXCEPT !.overlap.pc = "upsert_analysis",
                                !.overlap.an = analyze_message(rescan.overlap.msg)]
    /\ UNCHANGED <<srcVars, storeVars, engineVars, backfillVars, proc, tasks, hist>>

\* self.store.upsert_analysis(analysis) returns
OverlapUpsertAnalysis ==
    /\ rescan.overlap.pc = "upsert_analysis"
    /\ analysis' = upsert_analysis(rescan.overlap.msg.message_id, rescan.overlap.an)
    /\ NextEdited(Tail(rescan.overlap.edited), FALSE)
    /\ UNCHANGED <<srcVars, is_postgres, other_checkpoint, messages, checkpoint, high_water_mark,
                   running, overlap_task, handlers, backfillVars, proc, tasks>>

\* mutant of OverlapError: the error leaves _perform_overlap_rescan and the loop
OverlapErrorEndsLoop ==
    /\ \/ rescan.overlap.pc \in {"fetch", "analyze", "upsert_analysis"}
       \/ rescan.overlap.pc = "process" /\ proc["overlap"].step = "done"
    /\ flood_wait["overlap"] = 0
    /\ hist.errors < MaxErrors
    /\ rescan' = [rescan EXCEPT !.overlap = [NoRescan EXCEPT !.pc = "ended"]]
    /\ proc' = [proc EXCEPT !["overlap"] = IdleProc]
    /\ overlap_task' = "done"
    /\ hist' = [hist EXCEPT !.scan_done = TRUE, !.scan_err = TRUE, !.errors = @ + 1]
    /\ UNCHANGED <<srcVars, storeVars, running, handlers, stats, backfillVars, tasks>>

\* an await of _perform_overlap_rescan raises: its `except Exception` logs and returns
OverlapError ==
    /\ \/ rescan.overlap.pc \in {"fetch", "analyze", "upsert_analysis"}
       \/ rescan.overlap.pc = "process" /\ proc["overlap"].step = "done"
    /\ flood_wait["overlap"] = 0
    /\ hist.errors < MaxErrors
    /\ rescan' = [rescan EXCEPT !.overlap.pc = "sleep", !.overlap.edited = <<>>,
                                !.overlap.msg = NoTelegramMessage,
                                !.overlap.an = NoAnalysis]
    /\ proc' = [proc EXCEPT !["overlap"] = IdleProc]
    /\ OverlapRunOver(TRUE)
    /\ UNCHANGED <<srcVars, storeVars, running, overlap_task, handlers, backfillVars,
                   tasks>>

\* manual_rescan_range(start_date, end_date) up to the await of its fetch
ManualRescanStart(start_date, end_date) ==
    /\ rescan.manual.pc = "none"
    /\ hist.manuals < MaxRescans
    /\ rescan' = [rescan EXCEPT !.manual.pc = "fetch", !.manual.lo = start_date,
                                !.manual.hi = end_date]
    /\ hist' = [hist EXCEPT !.manuals = @ + 1, !.manual_done = FALSE,
                            !.manual_ids = {}]
    /\ UNCHANGED <<srcVars, storeVars, engineVars, backfillVars, proc, tasks>>

\* manual_rescan_range: fetch_messages_in_range returns, _process_message_batch begins
ManualRescanFetch ==
    /\ rescan.manual.pc = "fetch"
    /\ flood_wait["manual"] = 0
    /\ LET ms == fetch_messages_in_range(rescan.manual.lo, rescan.manual.hi)
       IN  /\ proc' = StartBatch("manual", ms)
           /\ hist' = [hist EXCEPT !.manual_ids = {ms[k].message_id : k \in 1..Len(ms)}]
    /\ rescan' = [rescan EXCEPT !.manual.pc = "process"]
    /\ UNCHANGED <<srcVars, storeVars, engineVars, backfillVars, tasks>>

\* mutant of ManualRescanReturn: the re-scan ends like a backfill batch, with a
\* checkpoint write
ManualRescanAdvancesCheckpoint ==
    /\ rescan.manual.pc = "process"
    /\ proc["manual"].step = "done"
    /\ checkpoint' = IF proc["manual"].batch = <<>> THEN checkpoint
                     ELSE update_checkpoint(checkpoint,
                              IngestCheckpoint(last_message(proc["manual"].batch)))
    /\ proc' = [proc EXCEPT !["manual"] = IdleProc]
    /\ rescan' = [rescan EXCEPT !.manual = NoRescan]
    /\ hist' = [hist EXCEPT !.manual_done = TRUE]
    /\ UNCHANGED <<srcVars, is_postgres, other_checkpoint, messages, analysis, high_water_mark,
                   engineVars, backfillVars, tasks>>

\* manual_rescan_range: _process_message_batch is over and the call returns
ManualRescanReturn ==
    /\ rescan.manual.pc = "process"
    /\ proc["manual"].step = "done"
    /\ proc' = [proc EXCEPT !["manual"] = IdleProc]
    /\ rescan' = [rescan EXCEPT !.manual = NoRescan]
    /\ hist' = [hist EXCEPT !.manual_done = TRUE]
    /\ UNCHANGED <<srcVars, storeVars, engineVars, backfillVars, tasks>>

\* manual_rescan_range: the fetch raises, and the error is raised to the caller
ManualRescanError ==
    /\ rescan.manual.pc = "fetch"
    /\ flood_wait["manual"] = 0
    /\ hist.errors < MaxErrors
    /\ rescan' = [rescan EXCEPT !.manual = NoRescan]
    /\ hist' = [hist EXCEPT !.errors = @ + 1]
    /\ UNCHANGED <<srcVars, storeVars, engineVars, backfillVars, proc, tasks>>

\* get_stats up to its await: self.stats.last_updated = datetime.utcnow()
GetStats ==
    /\ rescan.get_stats.pc = "none"
    /\ hist.stats_calls < MaxStatsCalls
    /\ stats' = [stats EXCEPT !.last_updated = now]
    /\ rescan' = [rescan EXCEPT !.get_stats.pc = "get_checkpoint"]
    /\ hist' = [hist EXCEPT !.stats_calls = @ + 1]
    /\ UNCHANGED <<srcVars, storeVars, running, overlap_task, handlers, backfillVars,
                   proc, tasks>>

\* mutant of GetStatsReturn: the caller gets a fresh IngestionStats that holds the lag
GetStatsReturnsFresh ==
    /\ rescan.get_stats.pc = "get_checkpoint"
    /\ stats' = [NewStats EXCEPT !.ingest_lag_seconds =
                     IF get_checkpoint("target").exists
                     THEN Max(0, now - get_checkpoint("target").last_ts_utc) ELSE 0]
    /\ rescan' = [rescan EXCEPT !.get_stats.pc = "none"]
    /\ UNCHANGED <<srcVars, storeVars, running, overlap_task, handlers, backfillVars,
                   proc, tasks, hist>>

\* mutant of GetStatsReturn: the lag is the difference itself
GetStatsReturnSignedLag ==
    /\ rescan.get_stats.pc = "get_checkpoint"
    /\ stats' = IF get_checkpoint("target").exists
                THEN [stats EXCEPT !.ingest_lag_seconds =
                          now - get_checkpoint("target").last_ts_utc]
                ELSE stats
    /\ rescan' = [rescan EXCEPT !.get_stats.pc = "none"]
    /\ UNCHANGED <<srcVars, storeVars, running, overlap_task, handlers, backfillVars,
                   proc, tasks, hist>>

\* get_stats: get_checkpoint returns; the lag when there is a checkpoint, and the
\* engine's own stats object is returned
GetStatsReturn ==
    /\ rescan.get_stats.pc = "get_checkpoint"
    /\ stats' = IF get_checkpoint("target").exists
                THEN [stats EXCEPT !.ingest_lag_seconds =
                          Max(0, now - get_checkpoint("target").last_ts_utc)]
                ELSE stats
    /\ rescan' = [rescan EXCEPT !.get_stats.pc = "none"]
    /\ UNCHANGED <<srcVars, storeVars, running, overlap_task, handlers, backfillVars,
                   proc, tasks, hist>>

\* the source answers the request of fetch_messages_in_range of flow f with
\* FloodWaitError(w): `except FloodWaitError`, and the wrapper sleeps e.seconds
RangeFloodWait(f, w) ==
    /\ rescan[f].pc = "fetch"
    /\ flood_wait[f] = 0
    /\ hist.floods < MaxFloods
    /\ flood_wait' = [flood_wait EXCEPT ![f] = w]
    /\ hist' = [hist EXCEPT !.floods = @ + 1]
    /\ UNCHANGED <<chat, now, storeVars, engineVars, backfillVars, proc, liveVars>>

\* asyncio.sleep(e.seconds) returns and the wrapper calls
\* self.fetch_messages_in_range(start_date, end_date, limit) again
RangeFloodRetry(f) ==
    /\ rescan[f].pc = "fetch"
    /\ flood_wait[f] > 0
    /\ now' = now + flood_wait[f]
    /\ flood_wait' = [flood_wait EXCEPT ![f] = 0]
    /\ hist' = [hist EXCEPT !.flood_waited = @ + flood_wait[f]]
    /\ UNCHANGED <<chat, storeVars, engineVars, backfillVars, proc, liveVars>>

\* ------------------------------------------------------------------ live runs
\* the engine right after a backfill without errors of a chat of n text messages
\* (posted at times 1..n) went live: all n stored and analyzed, the checkpoint at n;
\* then `later` more messages were posted whose new-message handlers failed in
\* upsert_message, which leaves them unstored and the checkpoint at n; and message
\* `e` (none when e = 0) was just edited and its edit handler failed after
\* upsert_message, which leaves the edit stored and the analysis the old one
WentLive(n, later, e) ==
    /\ now = MaxId + 1
    /\ flood_wait = NoFlood
    /\ chat = [id \in Ids |->
                  IF id > n + later THEN NoChatMessage
                  ELSE IF id = e THEN [TextMessage(id) EXCEPT !.ver = 1, !.edit_date = now]
                  ELSE TextMessage(id)]
    /\ checkpoint = [exists |-> TRUE, last_message_id |-> n, last_ts_utc |-> n]
    /\ other_checkpoint = NoCheckpoint
    /\ high_water_mark = [exists |-> TRUE, message_id |-> n]
    /\ current_hwm = [exists |-> TRUE, message_id |-> n]
    /\ current_id = n + 1
    /\ max_id = n
    /\ stats = [NewStats EXCEPT !.ingested_messages_total = n,
                                !.analyzed_messages_total = n]
    /\ is_postgres \in BOOLEAN
    /\ messages = [id \in Ids |->
                      IF id = e
                      THEN [stored |-> TRUE, ts_utc |-> id, text |-> 1, edit_date |-> now]
                      ELSE StoredUpTo(n)[id]]
    /\ analysis = AnalyzedUpTo(n)
    /\ running = TRUE
    /\ overlap_task = "created"
    /\ handlers = TRUE
    /\ pc = "listening"
    /\ proc = [f \in Flows |-> IdleProc]
    /\ tasks = [t \in TaskIds |-> NoTask]
    /\ rescan = [overlap |-> [NoRescan EXCEPT !.pc = "sleep"], manual |-> NoRescan,
                 get_stats |-> NoRescan]
    /\ hist = NewHist

InitLive == \E n \in 1..(MaxId - 1) : WentLive(n, 0, 0)

NextLive ==
    \/ SourcePost(MaxEvents)
    \/ \E id \in Ids : SourceEdit(id, MaxEvents)
    \/ \E id \in Ids : Redeliver(id, MaxEvents)
    \/ \E t \in TaskIds : HandlerUpsertMessage(t)
    \/ \E t \in TaskIds : HandlerAnalyze(t)
    \/ \E t \in TaskIds : NewMessageUpsertAnalysis(t)
    \/ \E t \in TaskIds : NewMessageCheckpoint(t)
    \/ \E t \in TaskIds : MessageEditUpsertAnalysis(t)
    \/ \E t \in TaskIds : HandlerError(t)

SpecLive == InitLive /\ [][NextLive]_vars

\* the re-scans of a live engine: the periodic overlap run and the manual re-scan
InitRescan ==
    \E n \in 1..MaxId : \E later \in 0..(MaxId - n) : \E e \in 0..n : WentLive(n, later, e)

NextRescan ==
    \/ OverlapWake
    \/ OverlapFetch
    \/ OverlapQuery
    \/ OverlapGetMessage
    \/ OverlapAnalyze
    \/ OverlapUpsertAnalysis
    \/ OverlapError
    \/ \E lo \in {1, now} : ManualRescanStart(lo, now)
    \/ ManualRescanFetch
    \/ ManualRescanReturn
    \/ ManualRescanError
    \/ \E f \in {"overlap", "manual"} : ProcUpsertMessage(f)
    \/ \E f \in {"overlap", "manual"} : ProcAnalyze(f)
    \/ \E f \in {"overlap", "manual"} : ProcUpsertAnalysis(f)
    \/ \E f \in {"overlap", "manual"} : ProcError(f)

SpecRescan == InitRescan /\ [][NextRescan]_vars

\* edits of a live engine, their handlers, and the periodic overlap run
NextOverlap ==
    \/ \E id \in Ids : SourceEdit(id, MaxScanEvents)
    \/ Tick
    \/ \E t \in TaskIds : HandlerUpsertMessage(t)
    \/ \E t \in TaskIds : HandlerAnalyze(t)
    \/ \E t \in TaskIds : MessageEditUpsertAnalysis(t)
    \/ \E t \in TaskIds : HandlerError(t)
    \/ OverlapWake
    \/ OverlapFetch
    \/ OverlapQuery
    \/ OverlapGetMessage
    \/ OverlapAnalyze
    \/ OverlapUpsertAnalysis
    \/ OverlapError
    \/ ProcUpsertMessage("overlap")
    \/ ProcAnalyze("overlap")
    \/ ProcUpsertAnalysis("overlap")
    \/ ProcError("overlap")

InitOverlap == \E n \in 1..MaxId : WentLive(n, 0, 0)

SpecOverlap == InitOverlap /\ [][NextOverlap]_vars

\* ------------------------------------------------------------------ backfill claims
CkptId(c) == IF c.exists THEN c.last_message_id ELSE 0

\* the text messages of the chat in (lo, hi]: what the source returns there
TextIdsIn(lo, hi) == {id \in Ids : chat[id].kind = "text" /\ lo < id /\ id <= hi}

MaxOf(S) == CHOOSE x \in S : \A y \in S : y <= x

BackfillOver == pc \in {"register", "listening"}
CleanRun == hist.errors = 0 /\ hist.crashes = 0 /\ ~hist.stop_requested

\* C2: at every point of a backfill run (fetch errors, per-message failures, crash and
\* restart included) the persisted checkpoint is below every text message of
\* (initial checkpoint, HWM] that is not stored.
C2_CheckpointBelowUnstored ==
    \A id \in Ids :
        (/\ high_water_mark.exists
         /\ id \in TextIdsIn(CkptId(hist.init_ckpt), high_water_mark.message_id)
         /\ ~messages[id].stored)
        => CkptId(checkpoint) < id

\* C3: a backfill with no error, crash or stop has invoked Analyze exactly once for
\* each text message of (c, h] and for no other id, and ends with the checkpoint at
\* the largest id the source returned (unchanged when it returned none).
C3_BackfillComplete ==
    (BackfillOver /\ CleanRun) =>
        LET R == TextIdsIn(CkptId(hist.init_ckpt), current_hwm.message_id)
        IN  /\ \A id \in Ids : hist.bf_analyzed[id] = IF id \in R THEN 1 ELSE 0
            /\ \A id \in R : messages[id].stored /\ analysis[id].stored
            /\ IF R = {} THEN checkpoint = hist.init_ckpt
               ELSE checkpoint.exists /\ checkpoint.last_message_id = MaxOf(R)
            /\ current_hwm.message_id \in R
                   => checkpoint.last_message_id = current_hwm.message_id

\* a clean backfill over a range with a gap, in more than one batch
C3_Witness ==
    /\ pc = "listening" /\ CleanRun
    /\ Len(hist.fetches) >= 2
    /\ \E a, b \in TextIdsIn(CkptId(hist.init_ckpt), current_hwm.message_id) : b > a + 1
    /\ checkpoint.last_message_id = current_hwm.message_id

\* the requests of the fetch log follow the loop's arithmetic
FetchArithmetic ==
    \A k \in 1..Len(hist.fetches) :
        LET f == hist.fetches[k]
        IN  /\ f.min_id = f.cur - 1
            /\ f.max_id = Min(f.cur + BatchSize - 1, current_hwm.message_id)
            /\ f.limit = BatchSize
            /\ k = 1 => f.cur = (IF hist.run_ckpt.exists
                                 THEN hist.run_ckpt.last_message_id + 1 ELSE 1)

\* with checkpoint 50, HWM 237, batch_size 100 and every id present
FetchExample == full_chat_ranges(50 + 1, 237, 100) = <<<<50, 150>>, <<150, 237>>>>

\* C4 as claimed: the loop's arithmetic, current_id = last seen id + 1 after every
\* non-empty batch, and successive requested ranges disjoint and ascending.
C4_RangesDisjoint ==
    /\ FetchArithmetic
    /\ FetchExample
    /\ \A k \in 2..Len(hist.fetches) :
           LET f == hist.fetches[k]
               g == hist.fetches[k - 1]
           IN  /\ g.last # 0 => f.cur = g.last + 1
               /\ f.min_id >= g.max_id

\* C4 as amended: the loop's arithmetic; current_id = last seen id + 1 after a
\* non-empty batch whose checkpoint write succeeded, and batch_max + 1 otherwise;
\* successive ranges ascend (lower bound strictly, upper bound weakly) and a range
\* starts at or above the last id the previous fetch returned, so no returned id is
\* requested again; the ranges are disjoint when the previous batch was empty,
\* failed, or ended at its batch_max.
C4_RangesAscending ==
    /\ FetchArithmetic
    /\ FetchExample
    /\ \A k \in 2..Len(hist.fetches) :
           LET f == hist.fetches[k]
               g == hist.fetches[k - 1]
           IN  /\ f.cur = (IF g.out = "batch" THEN g.last + 1 ELSE g.max_id + 1)
               /\ f.min_id > g.min_id
               /\ f.max_id >= g.max_id
               /\ f.min_id >= g.last
               /\ (g.out # "batch" \/ g.last = g.max_id) => f.min_id >= g.max_id

\* a second range that overlaps the first: the first batch ended below its batch_max
C4_Witness ==
    /\ Len(hist.fetches) >= 2
    /\ hist.fetches[1].out = "batch"
    /\ hist.fetches[2].min_id < hist.fetches[1].max_id

\* C5: when the run's checkpoint is at or above the HWM (or there is none and the
\* chat is empty, HWM 0), backfill issues no fetch and writes no checkpoint.
C5_CaughtUpNoFetch ==
    (/\ current_hwm.exists
     /\ \/ hist.run_ckpt.exists
           /\ hist.run_ckpt.last_message_id >= current_hwm.message_id
        \/ ~hist.run_ckpt.exists /\ current_hwm.message_id = 0)
    => /\ hist.fetches = <<>>
       /\ hist.bf_ckpt_writes = 0
       /\ checkpoint = hist.run_ckpt
       /\ pc \in {"persist_hwm", "get_checkpoint", "register", "listening"}

\* start_ingestion went through a backfill that had nothing to do, twice: after a
\* crash too
C5_Witness ==
    /\ pc = "listening"
    /\ hist.crashes > 0
    /\ hist.run_ckpt.exists
    /\ hist.run_ckpt.last_message_id >= current_hwm.message_id
    /\ current_hwm.message_id > 0

\* ------------------------------------------------------------------ live claims
\* C1: over all interleavings of the checkpoint writes of concurrently running
\* new-message handlers, the stored last_message_id never decreases from one write
\* to the next.
C1_CheckpointMonotonic == [][CkptId(checkpoint') >= CkptId(checkpoint)]_vars

\* C6: update_checkpoint called with a last_message_id lower than the stored one
\* leaves the stored last_message_id unchanged, on either backend.
C6_UpdateCheckpointKeepsHigher ==
    (/\ hist.last_write.by # "none"
     /\ hist.last_write.before.exists
     /\ hist.last_write.arg.last_message_id < hist.last_write.before.last_message_id)
    => hist.last_write.after.last_message_id = hist.last_write.before.last_message_id

\* C7: the new-message handler of a message whose id is at or below the current
\* checkpoint leaves the checkpoint's last_message_id and last_ts_utc unchanged.
C7_HandlerAdvancesOnlyForward ==
    [][(\E t \in TaskIds :
            /\ tasks[t].kind = "new"
            /\ tasks[t].pc = "update_checkpoint"
            /\ tasks'[t].kind = "idle"
            /\ tasks[t].msg.message_id <= CkptId(checkpoint))
       => /\ checkpoint'.last_message_id = checkpoint.last_message_id
          /\ checkpoint'.last_ts_utc = checkpoint.last_ts_utc]_vars

\* C8: no step of an edit handler changes the checkpoint record, whatever the id of
\* the edited message.
C8_EditLeavesCheckpoint ==
    [][(\E t \in TaskIds : tasks[t].kind = "edit" /\ tasks'[t] # tasks[t])
       => checkpoint' = checkpoint]_vars

\* an edit handler has run to its end, and has stored the edit and its analysis, for
\* a message above the checkpoint
C8_Witness ==
    \E id \in Ids :
        /\ <<"edit", id>> \in hist.handled
        /\ id > CkptId(checkpoint)
        /\ messages[id].edit_date # NoDate
        /\ analysis[id].stored /\ analysis[id].text = messages[id].text

\* C9: no step of a manual re-scan or of an overlap re-scan run changes the
\* checkpoint record.
C9_RescanLeavesCheckpoint ==
    [][(rescan' # rescan \/ proc' # proc) => checkpoint' = checkpoint]_vars

\* a manual re-scan over ids below and above the checkpoint has returned and an
\* overlap run has completed, and the messages above the checkpoint are stored
C9_Witness ==
    /\ hist.manual_done
    /\ hist.scan_done /\ ~hist.scan_err
    /\ \E a, b \in hist.manual_ids :
          /\ a < CkptId(checkpoint) /\ CkptId(checkpoint) < b
          /\ messages[b].stored /\ analysis[b].stored
    /\ stats.overlap_rescans_total > 0

\* C10: once an overlap run has completed (without error, no handler in flight), no
\* message that needed re-analysis when the run started, and whose stored edit is
\* still that one, needs re-analysis any more.
C10_OverlapRunReanalyzes ==
    (/\ hist.scan_done /\ ~hist.scan_err
     /\ \A t \in TaskIds : tasks[t].kind = "idle")
    => \A id \in Ids :
           (hist.scan_need[id] # NoDate /\ messages[id].edit_date = hist.scan_need[id])
           => id \notin get_messages_needing_reanalysis

\* ------------------------------------------------------------------ rate limits
\* startup and backfill against a source that answers fetches with rate-limit signals
NextFlood ==
    \/ StartIngestion
    \/ ResolveHwm
    \/ PersistHwm
    \/ BackfillBegin
    \/ FetchBatch
    \/ FetchError
    \/ \E w \in 1..MaxWait : FetchFloodWait(w)
    \/ FetchFloodRetry
    \/ BackfillSleep
    \/ ProcUpsertMessage("backfill")
    \/ ProcAnalyze("backfill")
    \/ ProcUpsertAnalysis("backfill")
    \/ ProcError("backfill")
    \/ BackfillCheckpoint
    \/ BackfillCheckpointError
    \/ GoLive

SpecFlood == InitBackfill /\ [][NextFlood]_vars

\* the number of the first i requests that returned to the loop (as a result or as
\* an error): the index of the loop's fetch that request i belongs to, once it returned
RECURSIVE Returned(_)
Returned(i) ==
    IF i = 0 THEN 0
    ELSE Returned(i - 1) + (IF hist.requests[i].result = "flood" THEN 0 ELSE 1)

\* C11: a backfill request answered with a rate-limit signal of wait w is followed by
\* a request with the same min id, max id and limit, issued at least w later; until
\* then the loop still waits on that fetch, and when the retry succeeds the loop's
\* fetch of that range returns the retry's messages, not an error.
C11_FloodRetriesSameRange ==
    \A i \in 1..Len(hist.requests) :
        LET r == hist.requests[i]
        IN  r.result = "flood" =>
              IF i = Len(hist.requests)
              THEN /\ pc = "fetch"
                   /\ current_id - 1 = r.min_id /\ max_id = r.max_id
              ELSE LET n == hist.requests[i + 1]
                       ms == fetch_messages_batch(r.min_id, r.max_id, r.limit)
                   IN  /\ n.min_id = r.min_id /\ n.max_id = r.max_id /\ n.limit = r.limit
                       /\ n.at >= r.at + r.wait
                       /\ n.result = "ok" =>
                            LET e == hist.fetches[Returned(i + 1)]
                            IN  /\ e.min_id = r.min_id /\ e.max_id = r.max_id
                                /\ e.out \in {"batch", "empty", "checkpoint_error"}
                                /\ (e.out = "empty") = (ms = <<>>)
                                /\ e.out # "empty" => e.last = last_message(ms).message_id

\* a rate-limited fetch was retried, the retry returned messages, and the backfill went
\* on to store the last of them
C11_Witness ==
    \E i \in 1..Len(hist.requests) :
        /\ hist.requests[i].result = "flood"
        /\ i < Len(hist.requests)
        /\ hist.requests[i + 1].result = "ok"
        /\ hist.fetches[Returned(i + 1)].out = "batch"
        /\ messages[hist.fetches[Returned(i + 1)].last].stored
        /\ CkptId(checkpoint) = hist.fetches[Returned(i + 1)].last

\* C12: the stats counter flood_wait_seconds_total is at least the sum of the waits
\* slept on rate-limit signals while fetching.
C12_FloodWaitCounted == stats.flood_wait_seconds_total >= hist.flood_waited

\* the re-scans of a live engine against a source that answers with rate-limit signals
NextRescanFlood ==
    \/ NextRescan
    \/ \E f \in {"overlap", "manual"} : \E w \in 1..MaxWait : RangeFloodWait(f, w)
    \/ \E f \in {"overlap", "manual"} : RangeFloodRetry(f)
    \/ OverlapGetMessageFlood

SpecRescanFlood == InitRescan /\ [][NextRescanFlood]_vars

\* C13: a rate-limit signal on a fetch is recovered by waiting and retrying and never
\* becomes an absent result or skipped work: once an overlap run has completed without
\* an error of the source, the store or the analyzer, every message whose fetch by id
\* was rate-limited has been re-analyzed.
C13_FloodNeverSkipsWork ==
    (hist.scan_done /\ hist.errors = 0)
    => \A id \in hist.flood_by_id : id \notin get_messages_needing_reanalysis

\* ------------------------------------------------------------------ store calls
\* version v of message id as the source hands it out: v = 0 as posted, v > 0 its
\* v-th edit, made at time v
MessageVersion(id, v) ==
    [message_id |-> id, ts_utc |-> id, text |-> v,
     edit_date |-> IF v = 0 THEN NoDate ELSE v]

\* the analysis of version v, computed at time v + 1
AnalysisOf(v) == [stored |-> TRUE, text |-> v, analyzed_at |-> v + 1]

StoreCall(op, key, arg, before, after) ==
    [hist EXCEPT
        !.calls = @ + 1,
        !.store_call = [op |-> op, key |-> key, arg |-> arg, before |-> before,
                        after |-> after,
                        repeat |-> /\ hist.store_call.op = op
                                   /\ hist.store_call.key = key
                                   /\ hist.store_call.arg = arg]]

\* a caller awaits store.upsert_message(message)
CallUpsertMessage(id, v) ==
    /\ hist.calls < MaxCalls
    /\ messages' = upsert_message(MessageVersion(id, v))
    /\ hist' = StoreCall("upsert_message", id, MessageVersion(id, v), messages[id],
                         messages'[id])
    /\ UNCHANGED <<srcVars, is_postgres, other_checkpoint, analysis, checkpoint,
                   high_water_mark, engineVars, backfillVars, proc, liveVars>>

\* a caller awaits store.upsert_analysis(analysis)
CallUpsertAnalysis(id, v) ==
    /\ hist.calls < MaxCalls
    /\ analysis' = upsert_analysis(id, AnalysisOf(v))
    /\ hist' = StoreCall("upsert_analysis", id, AnalysisOf(v), analysis[id],
                         analysis'[id])
    /\ UNCHANGED <<srcVars, is_postgres, other_checkpoint, messages, checkpoint,
                   high_water_mark, engineVars, backfillVars, proc, liveVars>>

\* a caller awaits store.update_checkpoint(IngestCheckpoint(chat_id, id, ts))
CallUpdateCheckpoint(chat_id, id) ==
    /\ hist.calls < MaxCalls
    /\ LET c == IngestCheckpoint(MessageVersion(id, 0))
           old == get_checkpoint(chat_id)
       IN  /\ IF chat_id = "target"
              THEN /\ checkpoint' = update_checkpoint(checkpoint, c)
                   /\ UNCHANGED other_checkpoint
              ELSE /\ other_checkpoint' = update_checkpoint(other_checkpoint, c)
                   /\ UNCHANGED checkpoint
           /\ hist' = [StoreCall("update_checkpoint", chat_id, c, old,
                                 update_checkpoint(old, c))
                         EXCEPT !.ckpt_written = @ \cup {chat_id}]
    /\ UNCHANGED <<srcVars, is_postgres, messages, analysis, high_water_mark,
                   engineVars, backfillVars, proc, liveVars>>

\* a store right after initialize() on an empty database, on either backend
InitStore ==
    /\ chat = [id \in Ids |-> NoChatMessage]
    /\ now = MaxId + 1
    /\ flood_wait = NoFlood
    /\ is_postgres \in BOOLEAN
    /\ messages = [id \in Ids |-> NoMessage]
    /\ analysis = [id \in Ids |-> NoAnalysis]
    /\ checkpoint = NoCheckpoint
    /\ other_checkpoint = NoCheckpoint
    /\ high_water_mark = NoHwm
    /\ running = FALSE
    /\ overlap_task = "none"
    /\ handlers = FALSE
    /\ stats = NewStats
    /\ pc = "init"
    /\ current_hwm = NoHwm
    /\ current_id = 0
    /\ max_id = 0
    /\ proc = [f \in Flows |-> IdleProc]
    /\ tasks = [t \in TaskIds |-> NoTask]
    /\ rescan = [overlap |-> NoRescan, manual |-> NoRescan, get_stats |-> NoRescan]
    /\ hist = NewHist

NextStore ==
    \/ \E id \in Ids : \E v \in 0..MaxVer : CallUpsertMessage(id, v)
    \/ \E id \in Ids : \E v \in 0..MaxVer : CallUpsertAnalysis(id, v)
    \/ \E chat_id \in Chats : \E id \in Ids : CallUpdateCheckpoint(chat_id, id)

SpecStore == InitStore /\ [][NextStore]_vars

C15_OnlyLaterEditReplaces ==
    (/\ hist.store_call.op = "upsert_message"
     /\ hist.store_call.before.stored
     /\ \/ hist.store_call.after.text # hist.store_call.before.text
        \/ hist.store_call.after.edit_date # hist.store_call.before.edit_date)
    => /\ hist.store_call.arg.edit_date # NoDate
       /\ \/ hist.store_call.before.edit_date = NoDate
          \/ hist.store_call.before.edit_date < hist.store_call.arg.edit_date

\* C16: after update_checkpoint(c) for a chat without a stored checkpoint, or with a
\* stored one of a lower id, get_checkpoint of that chat returns c's last_message_id
\* and last_ts_utc; get_checkpoint of a chat never written returns None.
C16_CheckpointReadBack ==
    /\ (/\ hist.store_call.op = "update_checkpoint"
        /\ \/ ~hist.store_call.before.exists
           \/ hist.store_call.before.last_message_id
                  < hist.store_call.arg.last_message_id)
       => /\ get_checkpoint(hist.store_call.key).exists
          /\ get_checkpoint(hist.store_call.key).last_message_id
                 = hist.store_call.arg.last_message_id
          /\ get_checkpoint(hist.store_call.key).last_ts_utc
                 = hist.store_call.arg.last_ts_utc
    /\ \A chat_id \in Chats :
          chat_id \notin hist.ckpt_written => get_checkpoint(chat_id) = NoCheckpoint

\* the test chat's checkpoint was written over a lower one while the target chat's
\* was never written
C16_Witness ==
    /\ hist.store_call.op = "update_checkpoint"
    /\ hist.store_call.key = "test"
    /\ hist.store_call.before.exists
    /\ hist.store_call.before.last_message_id < hist.store_call.arg.last_message_id
    /\ "target" \notin hist.ckpt_written

\* ------------------------------------------------------------------ lifecycle
\* startup, backfill and going live, with errors of the source, the store and the
\* analyzer and with stop requests at any time (before start and after a stop too)
NextStartup ==
    \/ StartIngestion
    \/ ResolveHwm
    \/ PersistHwm
    \/ StartupError
    \/ BackfillBegin
    \/ FetchBatch
    \/ FetchError
    \/ BackfillSleep
    \/ ProcUpsertMessage("backfill")
    \/ ProcAnalyze("backfill")
    \/ ProcUpsertAnalysis("backfill")
    \/ ProcError("backfill")
    \/ BackfillCheckpoint
    \/ BackfillCheckpointError
    \/ GoLive
    \/ StopIngestion(MaxStops)

SpecStartup == InitBackfill /\ [][NextStartup]_vars

\* a live engine, its deliveries and handlers, and stop requests
NextStop ==
    \/ NextLive
    \/ StopIngestion(MaxStops)

SpecStop == InitLive /\ [][NextStop]_vars

\* C17: a stop_ingestion call on an engine that is not running (never started,
\* stopping, stopped, or failed at startup) changes nothing of the engine or the store.
C17_StopIdempotent ==
    [][(hist'.stops = hist.stops + 1 /\ ~running)
       => UNCHANGED <<srcVars, storeVars, engineVars, backfillVars, proc, liveVars>>]_vars

\* stop was called again on a live engine that an earlier stop had stopped and whose
\* re-scan task it had cancelled
C17_Witness ==
    /\ hist.stops_idle >= 1
    /\ pc = "listening"
    /\ overlap_task = "cancelled"
    /\ ~running

\* C18: after a stop request has returned, no handler invocation of a delivery made
\* after it writes a message, an analysis or the checkpoint.
C18_NoWritesAfterStop ==
    [][(/\ hist.stop_requested
        /\ \E t \in TaskIds : /\ t > hist.events_at_stop
                              /\ tasks[t].kind # "idle"
                              /\ tasks'[t] # tasks[t])
       => UNCHANGED <<messages, analysis, checkpoint>>]_vars

\* C19: when resolving the high water mark raises, start_ingestion ends with the
\* error and not running: no HWM persisted, no fetch issued, no checkpoint written, no
\* handler registered, no re-scan task created.
C19_HwmFailureAbortsStartup ==
    hist.start_error = "resolve_hwm" =>
        /\ pc = "failed"
        /\ ~running
        /\ high_water_mark = hist.run_hwm
        /\ hist.fetches = <<>> /\ hist.requests = <<>>
        /\ checkpoint = hist.run_ckpt
        /\ ~handlers
        /\ overlap_task = "none"
        /\ rescan.overlap.pc = "none"

\* resolving the high water mark raised, over a store that holds a checkpoint, and a
\* stop request followed
C19_Witness ==
    /\ hist.start_error = "resolve_hwm"
    /\ checkpoint.exists
    /\ hist.stops_idle >= 1

\* C20: start_ingestion ends with an error only for an error raised before the high
\* water mark was persisted.
C20_NoFailureOnceStarted ==
    pc = "failed" => hist.start_error \in {"resolve_hwm", "persist_hwm"}

\* ------------------------------------------------------------------ recovery
\* a backfill during which the source, the store or the analyzer fail, then live
\* mode with the clock and the periodic overlap re-scan, which no longer fail; no
\* operator acts. Every step that can be taken is eventually taken.
NextRecover ==
    \/ StartIngestion
    \/ ResolveHwm
    \/ PersistHwm
    \/ BackfillBegin
    \/ FetchBatch
    \/ FetchError
    \/ BackfillSleep
    \/ ProcUpsertMessage("backfill")
    \/ ProcAnalyze("backfill")
    \/ ProcUpsertAnalysis("backfill")
    \/ ProcError("backfill")
    \/ BackfillCheckpoint
    \/ BackfillCheckpointError
    \/ GoLive
    \/ Tick
    \/ OverlapWake
    \/ OverlapFetch
    \/ ProcUpsertMessage("overlap")
    \/ ProcAnalyze("overlap")
    \/ ProcUpsertAnalysis("overlap")
    \/ OverlapQuery

SpecRecover == InitBackfill /\ [][NextRecover]_vars /\ WF_vars(NextRecover)

InitStats ==
    /\ \E n \in 1..(MaxId - 1) :
          chat = [id \in Ids |-> IF id <= n THEN TextMessage(id) ELSE NoChatMessage]
    /\ checkpoint = NoCheckpoint
    /\ messages = [id \in Ids |-> NoMessage]
    /\ analysis = [id \in Ids |-> NoAnalysis]
    /\ hist = NewHist
    /\ now = MaxId + 1
    /\ flood_wait = NoFlood
    /\ is_postgres \in BOOLEAN
    /\ other_checkpoint = NoCheckpoint
    /\ high_water_mark = NoHwm
    /\ running = FALSE
    /\ overlap_task = "none"
    /\ handlers = FALSE
    /\ stats = NewStats
    /\ pc = "init"
    /\ current_hwm = NoHwm
    /\ current_id = 0
    /\ max_id = 0
    /\ proc = [f \in Flows |-> IdleProc]
    /\ tasks = [t \in TaskIds |-> NoTask]
    /\ rescan = [overlap |-> NoRescan, manual |-> NoRescan, get_stats |-> NoRescan]

\* every operation that touches the engine's stats, none of them failing: startup and
\* backfill, the new-message handler, the overlap run, a manual re-scan, get_stats
\* and stop. The operator re-scans a live engine while no handler runs, and no message
\* is posted during a manual re-scan; get_stats and stop come at any time
NextStats ==
    \/ StartIngestion
    \/ ResolveHwm
    \/ PersistHwm
    \/ BackfillBegin
    \/ FetchBatch
    \/ BackfillCheckpoint
    \/ GoLive
    \/ \E f \in Flows : ProcUpsertMessage(f)
    \/ \E f \in Flows : ProcAnalyze(f)
    \/ \E f \in Flows : ProcUpsertAnalysis(f)
    \/ (handlers /\ rescan.manual.pc = "none" /\ SourcePost(MaxScanEvents))
    \/ \E t \in TaskIds : HandlerUpsertMessage(t)
    \/ \E t \in TaskIds : HandlerAnalyze(t)
    \/ \E t \in TaskIds : NewMessageUpsertAnalysis(t)
    \/ \E t \in TaskIds : NewMessageCheckpoint(t)
    \/ OverlapWake
    \/ OverlapFetch
    \/ OverlapQuery
    \/ (/\ pc = "listening"
        /\ \A t \in TaskIds : tasks[t].kind = "idle"
        /\ ManualRescanStart(1, now))
    \/ ManualRescanFetch
    \/ ManualRescanReturn
    \/ GetStats
    \/ GetStatsReturn
    \/ StopIngestion(1)

SpecStats == InitStats /\ [][NextStats]_vars

\* C22: no step of an engine instance decreases ingested_messages_total,
\* analyzed_messages_total, overlap_rescans_total or flood_wait_seconds_total.
C22_CountersNeverDecrease ==
    [][/\ stats'.ingested_messages_total >= stats.ingested_messages_total
       /\ stats'.analyzed_messages_total >= stats.analyzed_messages_total
       /\ stats'.overlap_rescans_total >= stats.overlap_rescans_total
       /\ stats'.flood_wait_seconds_total >= stats.flood_wait_seconds_total]_vars

\* backfill, a live handler, an overlap run and a manual re-scan have counted, then
\* get_stats returned and stop was called
C22_Witness ==
    /\ hist.bf_ckpt_writes >= 1
    /\ <<"new", 0>> \notin hist.handled /\ hist.handled # {}
    /\ stats.overlap_rescans_total >= 1
    /\ hist.manual_done
    /\ stats.ingested_messages_total >= 3
    /\ hist.stats_calls >= 1 /\ rescan.get_stats.pc = "none"
    /\ stats.last_updated = now
    /\ hist.stop_requested

\* C23: once this run has issued a backfill fetch, written a checkpoint or stands in
\* the backfill loop, the store holds the high water mark resolved at this start (the
\* newest message of the chat), and every fetch of the run is bounded by that
\* persisted value.
C23_HwmPersistedBeforeBackfill ==
    /\ (\/ hist.requests # <<>>
        \/ hist.fetches # <<>>
        \/ hist.bf_ckpt_writes > 0
        \/ pc \in {"fetch", "process", "sleep"})
       => /\ high_water_mark.exists
          /\ high_water_mark = current_hwm
          /\ high_water_mark.message_id = LatestId
    /\ \A k \in 1..Len(hist.fetches) :
           hist.fetches[k].max_id = Min(hist.fetches[k].cur + BatchSize - 1,
                                        high_water_mark.message_id)

\* a run that fetched twice up to the newest message of a full chat and wrote a
\* checkpoint
C23_Witness ==
    /\ Len(hist.fetches) >= 2
    /\ hist.bf_ckpt_writes >= 1
    /\ high_water_mark.message_id = MaxId
    /\ hist.run_hwm = NoHwm

\* C24: until start_ingestion blocks on the subscription no handler is registered and
\* no re-scan task exists, and the handlers and the task appear in one and the same
\* step, taken after the backfill loop has exited, which issues no fetch and ends at
\* the subscription.
C24_LiveStartedAtomically ==
    [][/\ pc' # "listening"
          => ~handlers' /\ overlap_task' = "none" /\ rescan'.overlap.pc = "none"
       /\ (handlers' # handlers \/ (overlap_task = "none" /\ overlap_task' # "none"))
          => /\ ~handlers /\ handlers'
             /\ overlap_task = "none" /\ overlap_task' # "none"
             /\ pc = "register" /\ pc' = "listening"
             /\ hist'.requests = hist.requests
             /\ hist'.fetches = hist.fetches]_vars

\* the engine blocks on the subscription after a backfill that fetched, with its
\* handlers registered and its re-scan task pending
C24_Witness ==
    /\ pc = "listening"
    /\ handlers
    /\ overlap_task = "created"
    /\ rescan.overlap.pc = "sleep"
    /\ hist.fetches # <<>>

\* C25: the engine blocks on the subscription, with handlers registered or a re-scan
\* task created, only after a backfill that returned early as up to date or whose loop
\* exited with current_id above the high water mark.
C25_LiveOnlyAfterNormalExit ==
    (pc = "listening" \/ handlers \/ overlap_task # "none")
        => (current_id = 0 \/ current_id > current_hwm.message_id)

\* ------------------------------------------------------------------ termination
\* startup and the backfill loop, where every fetch may fail (each iteration at most
\* once, and the loop makes at most MaxId iterations) and the store and the analyzer
\* fail within their budget; the event loop runs every step that is ready
NextBackfillFair ==
    \/ StartIngestion
    \/ ResolveHwm
    \/ PersistHwm
    \/ BackfillBegin
    \/ FetchBatch
    \/ FetchErrorWithin(MaxId)
    \/ BackfillSleep
    \/ ProcUpsertMessage("backfill")
    \/ ProcAnalyze("backfill")
    \/ ProcUpsertAnalysis("backfill")
    \/ ProcError("backfill")
    \/ BackfillCheckpoint
    \/ BackfillCheckpointError

SpecBackfillFair == InitBackfill /\ [][NextBackfillFair]_vars /\ WF_vars(NextBackfillFair)

\* C26: current_id is larger at every loop iteration than at the one before, whether
\* the iteration fetched a batch, an empty batch or an error, and the loop is
\* eventually left with current_id above the high water mark (or not entered, the
\* store being up to date).
C26_BackfillTerminates ==
    /\ [](/\ \A k \in 1..(Len(hist.fetches) - 1) :
                hist.fetches[k + 1].cur > hist.fetches[k].cur
          /\ (hist.fetches # <<>> /\ pc # "process")
                => current_id > hist.fetches[Len(hist.fetches)].cur)
    /\ <>(/\ pc = "register"
          /\ current_id = 0 \/ current_id > current_hwm.message_id)

\* the loop was left after an iteration with an empty batch and one with a fetch error
C26_Witness ==
    /\ pc = "register"
    /\ current_id > current_hwm.message_id
    /\ \E j, k \in 1..Len(hist.fetches) :
          hist.fetches[j].out = "empty" /\ hist.fetches[k].out = "error"

\* the ids of a batch
BatchIds(ms) == {ms[k].message_id : k \in 1..Len(ms)}

\* the latest backfill fetch of this run
LastFetch == hist.fetches[Len(hist.fetches)]

\* C27: the step that ends an iteration over a non-empty batch without an error
\* leaves the checkpoint at the largest message id of the batch, with that message's
\* timestamp, and current_id at that id + 1.
C27_CheckpointAtBatchMaximum ==
    [][(/\ pc = "process"
        /\ proc["backfill"].step = "done"
        /\ pc' \in {"fetch", "register"})
       => LET mx == MaxOf(BatchIds(proc["backfill"].batch))
          IN  /\ checkpoint'.exists
              /\ checkpoint'.last_message_id = mx
              /\ checkpoint'.last_ts_utc = chat[mx].ts_utc
              /\ current_id' = mx + 1]_vars

\* the checkpoint was written for a batch whose largest id is below the requested
\* batch_max, and the loop goes on from that id + 1
C27_Witness ==
    /\ hist.bf_ckpt_writes >= 1
    /\ pc = "fetch"
    /\ LastFetch.out = "batch"
    /\ LastFetch.last < LastFetch.max_id
    /\ checkpoint.last_message_id = LastFetch.last
    /\ current_id = LastFetch.last + 1

\* C28: when the fetch of a range without text messages returns, current_id becomes
\* batch_max + 1 and the loop test is taken at once (no pause); the store, the batch
\* processing, the counters and the error count are left alone.
C28_EmptyBatchSkipsRange ==
    [][(/\ pc = "fetch"
        /\ Len(hist'.requests) = Len(hist.requests) + 1
        /\ hist'.requests[Len(hist'.requests)].result = "ok"
        /\ TextIdsIn(current_id - 1, max_id) = {})
       => /\ current_id' = max_id + 1
          /\ pc' = IF max_id + 1 <= current_hwm.message_id /\ running
                   THEN "fetch" ELSE "register"
          /\ pc' = "fetch" => max_id' = Min(max_id + BatchSize, current_hwm.message_id)
          /\ UNCHANGED <<storeVars, proc, stats>>
          /\ hist'.errors = hist.errors
          /\ hist'.bf_analyzed = hist.bf_analyzed
          /\ hist'.bf_ckpt_writes = hist.bf_ckpt_writes]_vars

\* an empty batch was fetched and the loop stands at the fetch of the next range, the
\* checkpoint still the one the run started with
C28_Witness ==
    /\ pc = "fetch"
    /\ hist.fetches # <<>>
    /\ LastFetch.out = "empty"
    /\ current_id = LastFetch.max_id + 1
    /\ checkpoint = hist.run_ckpt
    /\ hist.errors = 0

\* C29: when the source raises while the loop awaits its fetch, the loop is not left:
\* current_id becomes batch_max + 1, the store is not written, the engine keeps
\* running and pauses; when the pause is over the loop test is taken from that
\* current_id.
C29_FetchErrorSkipsRange ==
    [][/\ (pc = "fetch" /\ hist'.errors = hist.errors + 1)
          => /\ current_id' = max_id + 1
             /\ pc' = "sleep"
             /\ running' = running
             /\ UNCHANGED <<storeVars, proc, stats>>
             /\ hist'.bf_ckpt_writes = hist.bf_ckpt_writes
       /\ (pc = "sleep" /\ pc' # "sleep")
          => /\ current_id' = current_id
             /\ pc' = IF current_id <= current_hwm.message_id /\ running
                      THEN "fetch" ELSE "register"
             /\ pc' = "fetch"
                => max_id' = Min(current_id + BatchSize - 1, current_hwm.message_id)]_vars

\* after a failed fetch and the pause the loop stands at the fetch of the following
\* range, the checkpoint still the one the run started with
C29_Witness ==
    /\ pc = "fetch"
    /\ hist.fetches # <<>>
    /\ LastFetch.out = "error"
    /\ current_id = LastFetch.max_id + 1
    /\ checkpoint = hist.run_ckpt

\* C30: when _process_message_batch of the backfill has gone through its batch, every
\* message whose three steps did not raise is stored and analyzed, the count is the
\* number of those messages, and the backfill loop still stands at the call.
C30_FailureSparesSiblings ==
    proc["backfill"].step = "done" =>
        LET ms == proc["backfill"].batch
            ok == {k \in 1..Len(ms) : <<"backfill", ms[k].message_id>> \notin hist.proc_failed}
        IN  /\ pc = "process"
            /\ proc["backfill"].processed_count = Cardinality(ok)
            /\ \A k \in ok : /\ messages[ms[k].message_id].stored
                             /\ analysis[ms[k].message_id].stored
                             /\ analysis[ms[k].message_id].text = ms[k].text
                             /\ hist.bf_analyzed[ms[k].message_id] >= 1

\* a batch of two messages has been gone through: the first failed, the second is
\* stored and analyzed and is the one counted
C30_Witness ==
    /\ proc["backfill"].step = "done"
    /\ Len(proc["backfill"].batch) = 2
    /\ <<"backfill", proc["backfill"].batch[1].message_id>> \in hist.proc_failed
    /\ proc["backfill"].processed_count = 1
    /\ analysis[proc["backfill"].batch[2].message_id].stored

\* C31: after a first stop request that came while the backfill was processing a
\* batch, the backfill issues no further fetch; when it has left its loop every
\* message of that batch has been stored and analyzed, or its processing raised, and,
\* unless the checkpoint write raised, exactly one more checkpoint was written, at the
\* largest id of that batch.
C31_StopObservedAtLoopBoundary ==
    hist.stop_at.pc = "process" =>
        /\ Len(hist.requests) = hist.stop_at.requests
        /\ pc \in {"process", "sleep", "register", "listening"}
        /\ hist.bf_ckpt_writes <= hist.stop_at.ckpt_writes + 1
        /\ pc \in {"register", "listening"} =>
              /\ \A k \in 1..Len(hist.stop_at.batch) :
                    LET id == hist.stop_at.batch[k].message_id
                    IN  \/ messages[id].stored /\ analysis[id].stored
                        \/ <<"backfill", id>> \in hist.proc_failed
              /\ LastFetch.out # "checkpoint_error" =>
                    /\ hist.bf_ckpt_writes = hist.stop_at.ckpt_writes + 1
                    /\ checkpoint.exists
                    /\ checkpoint.last_message_id = MaxOf(BatchIds(hist.stop_at.batch))

\* a stop came while a batch of two was being processed, below the high water mark;
\* both messages were stored and analyzed and the loop was left with the batch's
\* checkpoint written and messages of the source still unfetched
C31_Witness ==
    /\ hist.stop_at.pc = "process"
    /\ Len(hist.stop_at.batch) = 2
    /\ hist.proc_failed = {}
    /\ analysis[hist.stop_at.batch[1].message_id].stored
    /\ analysis[hist.stop_at.batch[2].message_id].stored
    /\ pc = "register"
    /\ checkpoint.last_message_id = hist.stop_at.batch[2].message_id
    /\ current_id <= current_hwm.message_id

\* ------------------------------------------------------------------ backfill of a growing chat
\* startup and backfill, with crash and restart, while the chat gains messages that
\* no handler is registered for yet
NextGrow ==
    \/ StartIngestion
    \/ ResolveHwm
    \/ PersistHwm
    \/ BackfillBegin
    \/ FetchBatch
    \/ FetchError
    \/ BackfillSleep
    \/ ProcUpsertMessage("backfill")
    \/ ProcAnalyze("backfill")
    \/ ProcUpsertAnalysis("backfill")
    \/ ProcError("backfill")
    \/ BackfillCheckpoint
    \/ BackfillCheckpointError
    \/ GoLive
    \/ CrashRestart
    \/ (~handlers /\ SourcePost(MaxScanEvents))

SpecGrow == InitBackfill /\ [][NextGrow]_vars

\* C32: in a backfill without fetch or per-message error, crashes included: the
\* checkpoint is at or above a text message of (initial checkpoint, newest id] only
\* when that message is stored and analyzed; a run's first fetch starts one above the
\* checkpoint it read; and when a backfill has completed, every text message of
\* (initial checkpoint, HWM of the completing run] is stored and analyzed.
C32_CrashResumesAtCheckpoint ==
    hist.errors = 0 =>
        /\ \A id \in TextIdsIn(CkptId(hist.init_ckpt), CkptId(checkpoint)) :
               messages[id].stored /\ analysis[id].stored
        /\ Len(hist.fetches) >= 1 => hist.fetches[1].cur = CkptId(hist.run_ckpt) + 1
        /\ (pc = "fetch" /\ hist.fetches = <<>>) => current_id = CkptId(checkpoint) + 1
        /\ BackfillOver =>
               \A id \in TextIdsIn(CkptId(hist.init_ckpt), current_hwm.message_id) :
                   messages[id].stored /\ analysis[id].stored

\* the first run crashed with a batch in hand, after the analysis of one of its
\* messages; the chat gained a message; the second run resumed above the checkpoint
\* it found, analyzed that message again and completed up to its larger high water
\* mark
C32_Witness ==
    /\ hist.errors = 0
    /\ hist.crashes = 1
    /\ BackfillOver
    /\ hist.run_hwm.exists
    /\ current_hwm.message_id > hist.run_hwm.message_id
    /\ hist.run_ckpt.exists
    /\ Len(hist.fetches) >= 1
    /\ hist.fetches[1].cur = hist.run_ckpt.last_message_id + 1
    /\ checkpoint.last_message_id = current_hwm.message_id
    /\ \E id \in Ids : hist.bf_analyzed[id] = 2

\* C33 as claimed: no backfill fetch requests an id above the high water mark or at
\* or below the checkpoint the run started from, and until the handlers are
\* registered the persisted checkpoint is at or below the high water mark.
C33_CheckpointBelowHwm ==
    /\ \A k \in 1..Len(hist.fetches) :
           /\ hist.fetches[k].max_id <= current_hwm.message_id
           /\ hist.fetches[k].min_id >= CkptId(hist.run_ckpt)
    /\ (~handlers /\ current_hwm.exists)
           => CkptId(checkpoint) <= current_hwm.message_id

\* C33 as amended: the same bounds on every fetch; until the handlers are registered
\* no checkpoint written by the backfill is above the high water mark, so that the
\* persisted checkpoint is at or below the larger of the high water mark and the
\* checkpoint the run started from.
C33_WrittenCheckpointBelowHwm ==
    /\ \A k \in 1..Len(hist.fetches) :
           /\ hist.fetches[k].max_id <= current_hwm.message_id
           /\ hist.fetches[k].min_id >= CkptId(hist.run_ckpt)
    /\ (~handlers /\ current_hwm.exists) =>
           /\ CkptId(checkpoint) <= Max(current_hwm.message_id, CkptId(hist.run_ckpt))
           /\ hist.bf_ckpt_writes > 0 => CkptId(checkpoint) <= current_hwm.message_id

\* the chat gained a message above the high water mark while the backfill ran; the
\* backfill fetched up to the high water mark, wrote its checkpoint there and left
\* its loop
C33_Witness ==
    /\ pc = "register"
    /\ hist.crashes = 0
    /\ LatestId > current_hwm.message_id
    /\ Len(hist.fetches) >= 1
    /\ hist.bf_ckpt_writes >= 1
    /\ checkpoint.last_message_id = current_hwm.message_id

\* ------------------------------------------------------------------ the re-scan loop
\* the periodic overlap run of a live engine, with one run more than errors can end,
\* and a stop request
NextLoop ==
    \/ OverlapWakeWithin(MaxRescans + 1)
    \/ OverlapFetch
    \/ OverlapQuery
    \/ OverlapGetMessage
    \/ OverlapAnalyze
    \/ OverlapUpsertAnalysis
    \/ OverlapError
    \/ ProcUpsertMessage("overlap")
    \/ ProcAnalyze("overlap")
    \/ ProcUpsertAnalysis("overlap")
    \/ ProcError("overlap")
    \/ StopIngestion(1)

\* a live engine; one of its messages may hold an edit that is not analyzed yet
InitLoop == \E n \in 1..MaxId : \E e \in 0..n : WentLive(n, 0, e)

SpecLoop == InitLoop /\ [][NextLoop]_vars

\* C34: the re-scan loop has ended only when a stop was requested, the running flag is
\* cleared and the task cancelled; a step in which an error is raised leaves the task
\* pending and the loop either where it was (a message of the batch failed) or back
\* at its sleep; and no run starts while the running flag is cleared.
C34_LoopSurvivesErrors ==
    /\ [](rescan.overlap.pc = "ended"
              => hist.stop_requested /\ ~running /\ overlap_task = "cancelled")
    /\ [](overlap_task = "created" => rescan.overlap.pc # "ended")
    /\ [][hist'.errors > hist.errors
              => /\ overlap_task' = overlap_task
                 /\ rescan'.overlap.pc \in {"sleep", rescan.overlap.pc}]_vars
    /\ [][~running => hist'.rescans = hist.rescans]_vars

\* an await of the first overlap run raised (no message of a batch failed), and the
\* loop has started its second run
C34_Witness ==
    /\ hist.rescans = MaxRescans + 1
    /\ hist.errors = 1
    /\ hist.proc_failed = {}
    /\ stats.overlap_rescans_total = 1
    /\ rescan.overlap.pc = "fetch"
    /\ overlap_task = "created"
    /\ running

\* C35: an overlap run that has completed without an error has asked the store for
\* the messages whose edit is newer than their analysis.
C35_EveryRunQueriesEdits ==
    (hist.scan_done /\ ~hist.scan_err) => hist.scan_queried

\* ------------------------------------------------------------------ edits racing a re-scan
\* an edit of a live engine and its handler, interleaved with a manual re-scan of the
\* whole chat; no step raises
NextRace ==
    \/ \E id \in Ids : SourceEdit(id, MaxScanEvents)
    \/ \E t \in TaskIds : HandlerUpsertMessage(t)
    \/ \E t \in TaskIds : HandlerAnalyze(t)
    \/ \E t \in TaskIds : MessageEditUpsertAnalysis(t)
    \/ ManualRescanStart(0, now)
    \/ ManualRescanFetch
    \/ ProcUpsertMessage("manual")
    \/ ProcAnalyze("manual")
    \/ ProcUpsertAnalysis("manual")
    \/ ManualRescanReturn

SpecRace == InitLive /\ [][NextRace]_vars

\* every handler has returned and no re-scan is under way
Quiescent ==
    /\ \A t \in TaskIds : tasks[t] = NoTask
    /\ rescan.manual.pc = "none"
    /\ \A f \in Flows : proc[f] = IdleProc

\* C36: once the handlers and the re-scan have finished, without any error, the stored
\* analysis of every stored message is the analysis of the stored text of the message.
C36_AnalysisOfStoredVersion ==
    (Quiescent /\ hist.errors = 0) =>
        \A id \in Ids :
            (messages[id].stored /\ analysis[id].stored)
                => analysis[id].text = messages[id].text

\* ------------------------------------------------------------------ the reported lag
\* the most by which the source's clock, which dates the messages, is ahead of the
\* clock datetime.utcnow() reads
MaxSkew == 2

\* a constructed engine over a store that an earlier run left at checkpoint c (none
\* when c = 0), whose message the source dated t
InitLag ==
    /\ now = MaxId + 1
    /\ \E c \in 0..MaxId : \E t \in 1..(MaxId + 1 + MaxSkew) :
          /\ c = 0 => t = 1
          /\ chat = [id \in Ids |-> IF id > c THEN NoChatMessage
                                    ELSE IF id = c THEN [TextMessage(id) EXCEPT !.ts_utc = t]
                                    ELSE TextMessage(id)]
          /\ checkpoint = IF c = 0 THEN NoCheckpoint
                          ELSE [exists |-> TRUE, last_message_id |-> c, last_ts_utc |-> t]
          /\ messages = [StoredUpTo(c) EXCEPT ![Max(c, 1)] =
                            IF c = 0 THEN @ ELSE [@ EXCEPT !.ts_utc = t]]
          /\ analysis = AnalyzedUpTo(c)
          /\ hist = [NewHist EXCEPT !.init_ckpt = checkpoint]
    /\ flood_wait = NoFlood
    /\ is_postgres \in BOOLEAN
    /\ other_checkpoint = NoCheckpoint
    /\ high_water_mark = NoHwm
    /\ running = FALSE
    /\ overlap_task = "none"
    /\ handlers = FALSE
    /\ stats = NewStats
    /\ pc = "init"
    /\ current_hwm = NoHwm
    /\ current_id = 0
    /\ max_id = 0
    /\ proc = [f \in Flows |-> IdleProc]
    /\ tasks = [t \in TaskIds |-> NoTask]
    /\ rescan = [overlap |-> NoRescan, manual |-> NoRescan, get_stats |-> NoRescan]

\* calls of get_stats as time passes
NextLag ==
    \/ GetStats
    \/ GetStatsReturn
    \/ Tick

SpecLag == InitLag /\ [][NextLag]_vars

\* C37: the reported lag is never negative; a get_stats call that finds a checkpoint
\* sets it to now - checkpoint.last_ts_utc when that is positive and to 0 otherwise; a
\* call that finds no checkpoint leaves it as it was, which is 0 on an engine that
\* never found one.
C37_LagClampedAtZero ==
    /\ [](stats.ingest_lag_seconds >= 0)
    /\ [](~checkpoint.exists => stats.ingest_lag_seconds = 0)
    /\ [][(rescan.get_stats.pc = "get_checkpoint" /\ rescan'.get_stats.pc = "none")
             => stats'.ingest_lag_seconds =
                    IF checkpoint.exists
                    THEN (IF now > checkpoint.last_ts_utc
                          THEN now - checkpoint.last_ts_utc ELSE 0)
                    ELSE stats.ingest_lag_seconds]_vars

\* get_stats has returned with a checkpoint whose timestamp is ahead of the clock
C37_Witness ==
    /\ hist.stats_calls >= 1
    /\ rescan.get_stats.pc = "none"
    /\ checkpoint.exists
    /\ checkpoint.last_ts_utc > now
    /\ stats.ingest_lag_seconds = 0
    /\ stats.last_updated = now

\* C38: a step that writes the checkpoint or a counter of a live engine is the last
\* step of a new-message handler whose message and analysis are stored; a step in
\* which a new-message handler ends with an error changes neither the checkpoint nor
\* the stats, and leaves the subscription as it was.
C38_CheckpointAfterBothUpserts ==
    /\ [][(checkpoint' # checkpoint \/ stats' # stats) =>
             \E t \in TaskIds :
                 /\ tasks[t].kind = "new"
                 /\ tasks[t].pc = "update_checkpoint"
                 /\ tasks'[t] = NoTask
                 /\ hist'.errors = hist.errors
                 /\ messages[tasks[t].msg.message_id].stored
                 /\ analysis[tasks[t].msg.message_id].stored
                 /\ checkpoint' = update_checkpoint(checkpoint,
                                                    IngestCheckpoint(tasks[t].msg))]_vars
    /\ [][hist'.errors > hist.errors =>
             /\ checkpoint' = checkpoint
             /\ stats' = stats
             /\ handlers' = handlers /\ pc' = pc /\ running' = running]_vars

\* the handler of a newly posted message failed after it had stored the message:
\* the message has no analysis, the checkpoint is below it and the counters are those
\* of the backfill
C38_Witness ==
    /\ hist.errors = 1
    /\ \A t \in TaskIds : tasks[t] = NoTask
    /\ \E id \in Ids :
          /\ id > current_hwm.message_id
          /\ messages[id].stored
          /\ ~analysis[id].stored
          /\ checkpoint.last_message_id < id
    /\ stats.ingested_messages_total = current_hwm.message_id
    /\ stats.analyzed_messages_total = current_hwm.message_id
    /\ handlers /\ pc = "listening"

\* ------------------------------------------------------------------ the two counters
\* a live engine: a post or an edit and its handler, and a manual re-scan of the
\* messages dated 1 to 2, each of which may raise
NextCounters ==
    \/ (handlers /\ SourcePost(MaxScanEvents))
    \/ \E id \in Ids : SourceEdit(id, MaxScanEvents)
    \/ \E t \in TaskIds : HandlerUpsertMessage(t)
    \/ \E t \in TaskIds : HandlerAnalyze(t)
    \/ \E t \in TaskIds : NewMessageUpsertAnalysis(t)
    \/ \E t \in TaskIds : NewMessageCheckpoint(t)
    \/ \E t \in TaskIds : MessageEditUpsertAnalysis(t)
    \/ \E t \in TaskIds : HandlerError(t)
    \/ ManualRescanStart(1, 2)
    \/ ManualRescanFetch
    \/ ManualRescanReturn
    \/ ManualRescanError
    \/ ProcUpsertMessage("manual")
    \/ ProcAnalyze("manual")
    \/ ProcUpsertAnalysis("manual")
    \/ ProcError("manual")

SpecCounters == InitLive /\ [][NextCounters]_vars

\* C39: ingested_messages_total is at least analyzed_messages_total in every state,
\* and no step of an edit handler changes the stats.
C39_IngestedAtLeastAnalyzed ==
    /\ [](stats.ingested_messages_total >= stats.analyzed_messages_total)
    /\ [][(\E t \in TaskIds : tasks[t].kind = "edit" /\ tasks'[t] # tasks[t])
             => stats' = stats]_vars

\* an edit handler has run to its end, and a message of a re-scan batch was stored
\* and counted but its analysis failed
C39_Witness ==
    /\ \E id \in Ids : <<"edit", id>> \in hist.handled
    /\ \E id \in Ids : <<"manual", id>> \in hist.proc_failed
    /\ stats.ingested_messages_total > stats.analyzed_messages_total
    /\ stats.analyzed_messages_total > current_hwm.message_id
    /\ hist.manual_done
    /\ \A t \in TaskIds : tasks[t] = NoTask

\* ------------------------------------------------------------------ leaving start_ingestion
\* startup, backfill and the live phase, stop requests, and every way out of
\* start_ingestion
NextExit ==
    \/ NextStartup
    \/ \E how \in {"returned", "failed", "cancelled"} : StartIngestionExits(how)

SpecExit == InitBackfill /\ [][NextExit]_vars

\* C40: when start_ingestion has been left, by a return, an error or a cancellation,
\* the running flag is cleared and no re-scan task is pending; and the flag is set
\* only while start_ingestion is under way and no stop request has found it set.
C40_ExitClearsRunning ==
    /\ pc \in {"returned", "failed", "cancelled"} =>
           /\ ~running
           /\ overlap_task # "created"
           /\ rescan.overlap.pc \in {"none", "ended"}
    /\ running => (pc \in StartAwaits \cup {"register"} /\ hist.stops = hist.stops_idle)

\* the task of start_ingestion was cancelled while it was listening, with no stop
\* request before: the flag is cleared and the re-scan task cancelled
C40_Witness ==
    /\ pc = "cancelled"
    /\ ~hist.stop_requested
    /\ handlers
    /\ overlap_task = "cancelled"
    /\ ~running

====
